---------------------------- MODULE Spec2Model ----------------------------
(***************************************************************************)
(* Model of the simulated-trading ledger of the stock market dashboard     *)
(* (the portfolio slice of the Redux store): the executeBuyOrder and       *)
(* executeSellOrder thunks with their pending / fulfilled / rejected       *)
(* reducers, resetPortfolio, setInitialBalance, and the local-storage      *)
(* persistence (saveToStorage / loadFromStorage).  updatePrice, clearError *)
(* and fetchPortfolioPrices, which write none of holdings, transactions,   *)
(* cashBalance, initialBalance or local storage, are not modelled.         *)
(*                                                                         *)
(* Money amounts are exact: prices, totals and the cash balance are        *)
(* integers (a price is a whole number of currency units), and the two     *)
(* per-holding amounts that the code obtains by division (averageCost,     *)
(* totalCost) are rationals <<numerator, denominator>> in lowest terms.    *)
(* Transaction ids and timestamps (Date.now, Math.random) are left out of  *)
(* the records: no reducer reads them.                                     *)
(*                                                                         *)
(* The data-access layer (services/api.ts) is modelled part by part, each  *)
(* part with a specification of its own that starts from the same initial  *)
(* state: the request queue with the request functions it runs            *)
(* (QueueSpec), a run of retryWithBackoff (RetrySpec), the response cache  *)
(* (CacheSpec), getHistoricalData with its synthetic series (ChartSpec),  *)
(* the market overview lists: getMarketIndices, getTopGainers and          *)
(* getTopLosers (MarketSpec), and getMultiplePrices running on the queue   *)
(* (BatchSpec).  The ledger specifications (Spec, SeqSpec) take the        *)
(* outcome of a price lookup as an input and leave that layer at rest;     *)
(* ResetSpec is Spec with the history of the last reset recorded.          *)
(*                                                                         *)
(* The watchlist slice (addToWatchlist, removeFromWatchlist,               *)
(* clearWatchlist, the fetchWatchlistQuotes thunk and the persistence of   *)
(* the items) is WatchSpec.  updateQuote, which the application never      *)
(* dispatches, is not modelled.                                            *)
(***************************************************************************)
EXTENDS Integers, Sequences, FiniteSets, Bags, TLC

VARIABLES
    holdings,        \* portfolio.holdings: array of PortfolioHolding
    transactions,    \* portfolio.transactions: array of Transaction, newest first
    cashBalance,     \* portfolio.cashBalance
    initialBalance,  \* portfolio.initialBalance
    currentPrices,   \* portfolio.currentPrices: symbol -> last fetched price
    status,          \* portfolio.status
    error,           \* portfolio.error
    storage,         \* localStorage, the four portfolio keys
    orders,          \* order thunks awaiting their price (a bag of closures)
    issued,          \* how many orders have been dispatched so far
    sinceReset,      \* history: what has happened to the ledger since it was last reset
    now,             \* Date.now(), in milliseconds
    queue,           \* requestQueue.queue: the queued closures, by task number
    isProcessing,    \* requestQueue.isProcessing
    lastRequestTime, \* requestQueue.lastRequestTime
    drain,           \* where the processQueue() loop stands
    tasks,           \* the requests handed to requestQueue.add(), in call order
    starts,          \* the request functions started so far: task and time
    retry,           \* a run of retryWithBackoff(fn, retries)
    cache,           \* apiCache.cache: key -> entry
    written,         \* per key, the last set() not invalidated or cleared since
    lastGet,         \* the last apiCache.get(): key and what it returned
    chart,           \* the last getHistoricalData(): inputs and result
    market,          \* the last market overview request: upstream's answers and result
    batch,           \* a call of getMultiplePrices(symbols)
    items,           \* watchlist.items: array of WatchlistItem
    quotes,          \* watchlist.quotes: symbol -> last fetched quote
    watchStatus,     \* watchlist.status
    watchError,      \* watchlist.error
    watchStorage,    \* localStorage, the key 'watchlist'
    refreshes,       \* fetchWatchlistQuotes thunks awaiting their quotes (a bag)
    watchOp          \* the last action the watchlist slice reduced

\* The state of the trading ledger.
portfolio == <<holdings, transactions, cashBalance, initialBalance, currentPrices,
               status, error, storage, orders, issued, sinceReset>>

\* The state of the data-access layer (services/api.ts).
api == <<now, queue, isProcessing, lastRequestTime, drain, tasks, starts,
         retry, cache, written, lastGet, chart>>

\* The state of the watchlist store.
watch == <<items, quotes, watchStatus, watchError, watchStorage, refreshes, watchOp>>

\* The results of the market-data client's batch operations and the state
\* of the watchlist store.
stores == <<market, batch, watch>>

vars == <<portfolio, api, stores>>

ledger == <<holdings, transactions, cashBalance, initialBalance, currentPrices, storage>>

-----------------------------------------------------------------------------
(* Bounds of the model and the inputs the actions draw from.               *)

\* Spec: at most this many orders are dispatched in a behaviour.
MaxOrders == 2

\* Spec: at most this many order thunks await their price at once.
MaxInFlight == 2

\* SeqSpec: at most this many orders are dispatched in a behaviour.
MaxSeqOrders == 3

DEFAULT_INITIAL_BALANCE == 100000

Symbols == {"AAPL", "MSFT"}

\* Share counts an order may ask for (positive, as the form's schema demands).
ShareCounts == {5, 10}

\* Prices upstream may quote for a symbol (response.data.c); 0 is what
\* getPrice returns when the quote has no price.
Quotes(symbol) == IF symbol = "AAPL" THEN {0, 150, 180, 200} ELSE {0, 150}

\* Amounts setInitialBalance is called with.
BalanceInputs == {-100, 1000}

\* The outcome of stockApi.getPrice(symbol, true): a price, or a thrown error.
FetchOutcomes(symbol) ==
    {[ok |-> FALSE, price |-> 0]} \cup {[ok |-> TRUE, price |-> p] : p \in Quotes(symbol)}

DisplayName(symbol) == IF symbol = "AAPL" THEN "Apple Inc" ELSE "Microsoft Corp"

\* JavaScript's null / undefined / an absent key.
Null == "null"

-----------------------------------------------------------------------------
(* Exact arithmetic on the amounts the code divides.                       *)

Abs(i) == IF i < 0 THEN -i ELSE i

RECURSIVE GCD(_, _)
GCD(a, b) == IF b = 0 THEN a ELSE GCD(b, a % b)

\* n / d in lowest terms, d > 0.
Rat(n, d) == LET g == GCD(Abs(n), d) IN <<n \div g, d \div g>>

IntRat(i) == <<i, 1>>

RatAdd(a, b) == Rat(a[1] * b[2] + b[1] * a[2], a[2] * b[2])

RatMul(a, b) == Rat(a[1] * b[1], a[2] * b[2])

\* a / b for b > 0.
RatDiv(a, b) == Rat(a[1] * b[2], a[2] * b[1])


-----------------------------------------------------------------------------
(* Arrays and option values.  An optional value (a possibly-null reference, *)
(* a possibly-absent storage key) is a sequence of length 0 or 1.           *)

None == <<>>

Some(v) == <<v>>

\* holdings.find((h) => h.symbol === symbol): the first match, if any.
Find(hs, symbol) ==
    LET m == SelectSeq(hs, LAMBDA h : h.symbol = symbol)
    IN  IF m = <<>> THEN None ELSE Some(m[1])

\* state.holdings.findIndex((h) => h.symbol === symbol); 0 stands for -1.
FindIndex(hs, symbol) ==
    IF \E i \in 1..Len(hs) : hs[i].symbol = symbol
    THEN CHOOSE i \in 1..Len(hs) :
            /\ hs[i].symbol = symbol
            /\ \A j \in 1..(i - 1) : hs[j].symbol # symbol
    ELSE 0

\* Mutant of Unshift: push for unshift.
UnshiftAsPush(log, tx) == Append(log, tx)

\* state.transactions.unshift(transaction)
Unshift(log, tx) == <<tx>> \o log

\* state.holdings.filter((h) => h.symbol !== symbol)
FilterOut(hs, symbol) == SelectSeq(hs, LAMBDA h : h.symbol # symbol)

\* state.currentPrices[symbol] = price
SetPrice(cp, symbol, price) ==
    [s \in (DOMAIN cp) \cup {symbol} |-> IF s = symbol THEN price ELSE cp[s]]

\* delete state.currentPrices[symbol]
DeletePrice(cp, symbol) == [s \in (DOMAIN cp) \ {symbol} |-> cp[s]]

NoPrices == [s \in {} |-> 0]

-----------------------------------------------------------------------------
(* Local storage.  A key holds None (absent) or Some(text).  JSON text is   *)
(* kept as the value it denotes; a number's text is its decimal digits.     *)

STORAGE_KEYS ==
    [holdings       |-> "portfolio_holdings",
     transactions   |-> "portfolio_transactions",
     cashBalance    |-> "portfolio_cash",
     initialBalance |-> "portfolio_initial"]

StorageKeySet == {STORAGE_KEYS[f] : f \in DOMAIN STORAGE_KEYS}

Digits == <<"0", "1", "2", "3", "4", "5", "6", "7", "8", "9">>

RECURSIVE NatToString(_)
NatToString(n) ==
    IF n < 10 THEN <<Digits[n + 1]>>
    ELSE Append(NatToString(n \div 10), Digits[(n % 10) + 1])

\* Number.prototype.toString for the integers of the model.
NumberToString(n) == IF n < 0 THEN <<"-">> \o NatToString(-n) ELSE NatToString(n)

DigitValue(c) == CHOOSE d \in 0..9 : Digits[d + 1] = c

RECURSIVE ParseNat(_)
ParseNat(s) ==
    IF s = <<>> THEN 0
    ELSE ParseNat(SubSeq(s, 1, Len(s) - 1)) * 10 + DigitValue(s[Len(s)])

\* parseFloat on the texts NumberToString writes.
ParseFloat(s) == IF s[1] = "-" THEN -ParseNat(Tail(s)) ELSE ParseNat(s)

JsonStringify(v) == [json |-> v]

JsonParse(t) == t.json

\* `item ? ... : ...` on a getItem result holding JSON text: present (JSON
\* text is never the empty string).
TruthyJson(item) == item # None

\* `item ? ... : ...` on a getItem result holding a number's text: present
\* and not the empty string.
TruthyText(item) == item # None /\ Len(item[1]) > 0

EmptyStorage == [k \in StorageKeySet |-> None]

\* Object.values(STORAGE_KEYS).forEach((key) => localStorage.removeItem(key))
RemoveAll(st) == [k \in DOMAIN st |-> None]

\* saveToStorage(state): part is the Partial<PortfolioState> handed in (a
\* record holding some of the four fields).
SaveToStorage(st, part) ==
    [k \in DOMAIN st |->
        IF k = STORAGE_KEYS.holdings /\ "holdings" \in DOMAIN part
            THEN Some(JsonStringify(part.holdings))
        ELSE IF k = STORAGE_KEYS.transactions /\ "transactions" \in DOMAIN part
            THEN Some(JsonStringify(part.transactions))
        ELSE IF k = STORAGE_KEYS.cashBalance /\ "cashBalance" \in DOMAIN part
            THEN Some(NumberToString(part.cashBalance))
        ELSE IF k = STORAGE_KEYS.initialBalance /\ "initialBalance" \in DOMAIN part
            THEN Some(NumberToString(part.initialBalance))
        ELSE st[k]]

\* loadFromStorage(): what a page load reads back.
LoadFromStorage(st) ==
    LET h == st[STORAGE_KEYS.holdings]
        t == st[STORAGE_KEYS.transactions]
        c == st[STORAGE_KEYS.cashBalance]
        i == st[STORAGE_KEYS.initialBalance]
    IN  [holdings       |-> IF TruthyJson(h) THEN JsonParse(h[1]) ELSE <<>>,
         transactions   |-> IF TruthyJson(t) THEN JsonParse(t[1]) ELSE <<>>,
         cashBalance    |-> IF TruthyText(c) THEN ParseFloat(c[1])
                            ELSE DEFAULT_INITIAL_BALANCE,
         initialBalance |-> IF TruthyText(i) THEN ParseFloat(i[1])
                            ELSE DEFAULT_INITIAL_BALANCE]

-----------------------------------------------------------------------------
(* The order thunks.  A closure holds the thunk's arguments and what it     *)
(* read from getState() before awaiting the price: the cash balance and     *)
(* the holding found for the symbol.                                        *)

\* The closure of an order that read cash balance cash and holdings hs.
ClosureOf(kind, symbol, name, shares, cash, hs) ==
    [kind        |-> kind,
     symbol      |-> symbol,
     name        |-> name,
     shares      |-> shares,
     cashBalance |-> cash,
     existing    |-> Find(hs, symbol)]

\* const { cashBalance, holdings } = getState().portfolio
Closure(kind, symbol, name, shares) ==
    ClosureOf(kind, symbol, name, shares, cashBalance, holdings)

Rejection(message) == [ok |-> FALSE, error |-> message]

\* Mutant of InsufficientFunds: the funds check left out.
InsufficientFundsUnchecked(total, cash) == FALSE

\* if (total > cashBalance) throw ...
InsufficientFunds(total, cash) == total > cash

\* const averageCost = totalCost / totalShares
WeightedAverageCost(totalCost, totalShares) == RatDiv(totalCost, IntRat(totalShares))

\* Mutant of BuyMore: the average cost taken as the mean of the old average
\* and the new price, not weighted by shares.
BuyMoreMeanOfPrices(old, shares, total) ==
    [symbol      |-> old.symbol,
     name        |-> old.name,
     shares      |-> old.shares + shares,
     averageCost |-> RatDiv(RatAdd(old.averageCost, Rat(total, shares)), IntRat(2)),
     totalCost   |-> RatAdd(old.totalCost, IntRat(total))]

\* the holding a buy adds to an existing one
BuyMore(old, shares, total) ==
    LET totalShares == old.shares + shares
        totalCost   == RatAdd(old.totalCost, IntRat(total))
    IN  [symbol      |-> old.symbol,
         name        |-> old.name,
         shares      |-> totalShares,
         averageCost |-> WeightedAverageCost(totalCost, totalShares),
         totalCost   |-> totalCost]

\* the holding a buy of a symbol not held creates
BuyNew(symbol, name, shares, price, total) ==
    [symbol      |-> symbol,
     name        |-> name,
     shares      |-> shares,
     averageCost |-> IntRat(price),
     totalCost   |-> IntRat(total)]

TransactionRecord(type, symbol, name, shares, price, total) ==
    [type |-> type, symbol |-> symbol, name |-> name,
     shares |-> shares, price |-> price, total |-> total]

\* newCashBalance: cashBalance - total
CashAfterBuy(cash, total) == cash - total

\* executeBuyOrder's payload creator, from the awaited price on.
BuyThunk(o, fetch) ==
    IF ~fetch.ok THEN Rejection("Failed to fetch price")
    ELSE IF fetch.price = 0 THEN Rejection("Unable to fetch current price for this stock")
    ELSE LET total == fetch.price * o.shares IN
         IF InsufficientFunds(total, o.cashBalance) THEN Rejection("Insufficient funds")
         ELSE [ok             |-> TRUE,
               holding        |-> Some(IF o.existing # None
                                       THEN BuyMore(o.existing[1], o.shares, total)
                                       ELSE BuyNew(o.symbol, o.name, o.shares,
                                                   fetch.price, total)),
               transaction    |-> TransactionRecord("buy", o.symbol, o.name, o.shares,
                                                    fetch.price, total),
               newCashBalance |-> CashAfterBuy(o.cashBalance, total)]

\* Mutant of TooManyShares: the check of the shares held left out.
TooManySharesUnchecked(shares, held) == FALSE

\* if (shares > existingHolding.shares) throw ...
TooManyShares(shares, held) == shares > held

\* Mutant of SellsPart: <= for <, so that selling everything keeps a holding.
SellsPartOrAll(shares, held) == shares <= held

\* if (shares < existingHolding.shares): part of the holding remains
SellsPart(shares, held) == shares < held

\* const remainingCost = existingHolding.averageCost * remainingShares
RemainingCost(averageCost, remainingShares) == RatMul(averageCost, IntRat(remainingShares))

\* Mutant of SellPart: the total cost not recomputed for the shares left.
SellPartKeepsTotalCost(old, shares) ==
    [old EXCEPT !.shares = old.shares - shares]

\* the holding left by a sell of fewer than all shares
SellPart(old, shares) ==
    LET remainingShares == old.shares - shares
    IN  [symbol      |-> old.symbol,
         name        |-> old.name,
         shares      |-> remainingShares,
         averageCost |-> old.averageCost,
         totalCost   |-> RemainingCost(old.averageCost, remainingShares)]

\* Mutant of CashAfterSell: the buy thunk's subtraction copied.
CashAfterSellSubtracts(cash, total) == cash - total

\* newCashBalance: cashBalance + total
CashAfterSell(cash, total) == cash + total

\* The checks executeSellOrder makes before it awaits the price.
SellPrecheck(o) ==
    IF o.existing = None THEN Rejection("You don't own any shares")
    ELSE IF TooManyShares(o.shares, o.existing[1].shares)
         THEN Rejection("You only own fewer shares")
    ELSE [ok |-> TRUE]

\* executeSellOrder's payload creator.
SellThunk(o, fetch) ==
    IF ~SellPrecheck(o).ok THEN SellPrecheck(o)
    ELSE IF ~fetch.ok THEN Rejection("Failed to fetch price")
    ELSE IF fetch.price = 0 THEN Rejection("Unable to fetch current price for this stock")
    ELSE LET total == fetch.price * o.shares
             old   == o.existing[1]
         IN  [ok             |-> TRUE,
              holding        |-> IF SellsPart(o.shares, old.shares)
                                 THEN Some(SellPart(old, o.shares))
                                 ELSE None,
              transaction    |-> TransactionRecord("sell", o.symbol, old.name, o.shares,
                                                   fetch.price, total),
              newCashBalance |-> CashAfterSell(o.cashBalance, total)]

-----------------------------------------------------------------------------
(* Reducers: the next value of the portfolio state.                         *)

\* Mutant of PutHolding: the holding always pushed, never updated in place.
PutHoldingAlwaysPushes(hs, holding) == Append(hs, holding)

\* executeBuyOrder.fulfilled: update or add the holding
PutHolding(hs, holding) ==
    LET existingIndex == FindIndex(hs, holding.symbol)
    IN  IF existingIndex > 0
        THEN [hs EXCEPT ![existingIndex] = holding]
        ELSE Append(hs, holding)

\* executeSellOrder.fulfilled: update or remove the holding
UpdateOrRemoveHolding(hs, holding, symbol) ==
    IF holding # None
    THEN LET existingIndex == FindIndex(hs, holding[1].symbol)
         IN  IF existingIndex > 0
             THEN [hs EXCEPT ![existingIndex] = holding[1]]
             ELSE hs
    ELSE FilterOut(hs, symbol)

\* Mutant of OrderSaved: the cash balance not saved.
OrderSavedWithoutCash(hs, log, cash) ==
    [holdings |-> hs, transactions |-> log]

\* what the two fulfilled reducers hand to saveToStorage
OrderSaved(hs, log, cash) ==
    [holdings |-> hs, transactions |-> log, cashBalance |-> cash]

\* what resetPortfolio and setInitialBalance hand to saveToStorage
ResetSaved(balance) ==
    [holdings |-> <<>>, transactions |-> <<>>,
     cashBalance |-> balance, initialBalance |-> balance]

\* Mutant of NewBalance: the payload not clamped at 0.
NewBalanceUnclamped(payload) == payload

\* const newBalance = Math.max(0, action.payload)
NewBalance(payload) == IF payload > 0 THEN payload ELSE 0

InFlight == BagCardinality(orders)

TypeOK ==
    /\ cashBalance \in Int
    /\ initialBalance \in Int
    /\ status \in {"idle", "loading", "succeeded", "failed"}
    /\ DOMAIN currentPrices \subseteq Symbols
    /\ DOMAIN storage = StorageKeySet

-----------------------------------------------------------------------------
(* The data-access layer (services/api.ts): its configuration and its      *)
(* state when the module has just been loaded.                              *)

RATE_LIMIT_DELAY == 300

CACHE_TTL == 60000

MAX_RETRIES == 2

RETRY_BASE_DELAY == 500

\* Date.now() when the module is loaded: long after the epoch, so that the
\* first request is never paced against lastRequestTime = 0.
PageLoadTime == 1000

\* The processQueue() loop is not running.
DrainIdle == [pc |-> "idle", due |-> 0, task |-> 0]

\* No run of retryWithBackoff.
RetryIdle == [pc |-> "idle", retries |-> 0, attempt |-> 0, lastError |-> None,
              due |-> 0, calls |-> <<>>, raised |-> <<>>, waits |-> <<>>,
              outcome |-> None]

\* The keys the cache is used with: `price:${symbol}`.
CacheKeys == {"price:AAPL", "price:MSFT"}

\* private cache = new Map()
EmptyCache == [k \in CacheKeys |-> None]

ApiLoaded ==
    /\ now = PageLoadTime
    /\ queue = <<>>
    /\ isProcessing = FALSE
    /\ lastRequestTime = 0
    /\ drain = DrainIdle
    /\ tasks = <<>>
    /\ starts = <<>>
    /\ retry = RetryIdle
    /\ cache = EmptyCache
    /\ written = EmptyCache
    /\ lastGet = None
    /\ chart = None

\* No call of getMultiplePrices.
BatchIdle == [pc |-> "idle", symbols |-> <<>>, k |-> 0, task |-> 0,
              prices |-> NoPrices, got |-> <<>>]

\* loadWatchlistFromStorage(): stored ? JSON.parse(stored) : []
LoadWatchlistFromStorage(stored) ==
    IF TruthyJson(stored) THEN JsonParse(stored[1]) ELSE <<>>

\* No batch operation has been called, and the watchlist slice has its
\* initialState in a browser with no stored watchlist.
StoresLoaded ==
    /\ market = None
    /\ batch = BatchIdle
    /\ watchStorage = None
    /\ items = LoadWatchlistFromStorage(None)
    /\ quotes = NoPrices
    /\ watchStatus = "idle"
    /\ watchError = Null
    /\ refreshes = EmptyBag
    /\ watchOp = None

-----------------------------------------------------------------------------
(* The state after the module is loaded in a browser with no stored        *)
(* portfolio: initialState built from loadFromStorage().                    *)

\* No reset has completed yet.
NeverReset == [older |-> EmptyBag, kept |-> FALSE]

Init ==
    /\ storage = EmptyStorage
    /\ holdings = LoadFromStorage(EmptyStorage).holdings
    /\ transactions = LoadFromStorage(EmptyStorage).transactions
    /\ cashBalance = LoadFromStorage(EmptyStorage).cashBalance
    /\ initialBalance = LoadFromStorage(EmptyStorage).initialBalance
    /\ currentPrices = NoPrices
    /\ status = "idle"
    /\ error = Null
    /\ orders = EmptyBag
    /\ issued = 0
    /\ sinceReset = NeverReset
    /\ ApiLoaded
    /\ StoresLoaded

-----------------------------------------------------------------------------
(* Actions.                                                                 *)

\* dispatch(executeBuyOrder({symbol, name, shares})): the pending reducer
\* runs and the thunk reads the state, then awaits the price.
ExecuteBuyOrderPending(symbol, shares) ==
    /\ status' = "loading"
    /\ error' = Null
    /\ orders' = orders (+) SetToBag({Closure("buy", symbol, DisplayName(symbol), shares)})
    /\ issued' = issued + 1
    /\ UNCHANGED ledger
    /\ UNCHANGED <<api, stores>>

\* executeBuyOrder.fulfilled
ExecuteBuyOrderFulfilled(o, fetch) ==
    /\ BagIn(o, orders) /\ o.kind = "buy"
    /\ BuyThunk(o, fetch).ok
    /\ LET r == BuyThunk(o, fetch) IN
        /\ holdings' = PutHolding(holdings, r.holding[1])
        /\ transactions' = Unshift(transactions, r.transaction)
        /\ cashBalance' = r.newCashBalance
        /\ currentPrices' = SetPrice(currentPrices, r.holding[1].symbol, r.transaction.price)
        /\ status' = "succeeded"
        /\ storage' = SaveToStorage(storage,
                          OrderSaved(holdings', transactions', cashBalance'))
    /\ orders' = orders (-) SetToBag({o})
    /\ UNCHANGED <<initialBalance, error, issued>>
    /\ UNCHANGED <<api, stores>>

\* executeBuyOrder.rejected
ExecuteBuyOrderRejected(o, fetch) ==
    /\ BagIn(o, orders) /\ o.kind = "buy"
    /\ ~BuyThunk(o, fetch).ok
    /\ status' = "failed"
    /\ error' = BuyThunk(o, fetch).error
    /\ orders' = orders (-) SetToBag({o})
    /\ UNCHANGED <<ledger, issued>>
    /\ UNCHANGED <<api, stores>>

\* dispatch(executeSellOrder({symbol, shares}))
ExecuteSellOrderPending(symbol, shares) ==
    /\ status' = "loading"
    /\ error' = Null
    /\ orders' = orders (+) SetToBag({Closure("sell", symbol, Null, shares)})
    /\ issued' = issued + 1
    /\ UNCHANGED ledger
    /\ UNCHANGED <<api, stores>>

\* executeSellOrder.fulfilled
ExecuteSellOrderFulfilled(o, fetch) ==
    /\ BagIn(o, orders) /\ o.kind = "sell"
    /\ SellThunk(o, fetch).ok
    /\ LET r == SellThunk(o, fetch) IN
        /\ holdings' = UpdateOrRemoveHolding(holdings, r.holding, r.transaction.symbol)
        /\ currentPrices' = IF r.holding # None THEN currentPrices
                            ELSE DeletePrice(currentPrices, r.transaction.symbol)
        /\ transactions' = Unshift(transactions, r.transaction)
        /\ cashBalance' = r.newCashBalance
        /\ status' = "succeeded"
        /\ storage' = SaveToStorage(storage,
                          OrderSaved(holdings', transactions', cashBalance'))
    /\ orders' = orders (-) SetToBag({o})
    /\ UNCHANGED <<initialBalance, error, issued>>
    /\ UNCHANGED <<api, stores>>

\* executeSellOrder.rejected
ExecuteSellOrderRejected(o, fetch) ==
    /\ BagIn(o, orders) /\ o.kind = "sell"
    /\ ~SellThunk(o, fetch).ok
    /\ status' = "failed"
    /\ error' = SellThunk(o, fetch).error
    /\ orders' = orders (-) SetToBag({o})
    /\ UNCHANGED <<ledger, issued>>
    /\ UNCHANGED <<api, stores>>

\* resetPortfolio
ResetPortfolio ==
    /\ holdings' = <<>>
    /\ transactions' = <<>>
    /\ cashBalance' = DEFAULT_INITIAL_BALANCE
    /\ initialBalance' = DEFAULT_INITIAL_BALANCE
    /\ currentPrices' = NoPrices
    /\ error' = Null
    /\ storage' = SaveToStorage(RemoveAll(storage), ResetSaved(DEFAULT_INITIAL_BALANCE))
    /\ UNCHANGED <<status, orders, issued>>
    /\ UNCHANGED <<api, stores>>

\* setInitialBalance(payload)
SetInitialBalance(payload) ==
    /\ initialBalance' = NewBalance(payload)
    /\ cashBalance' = NewBalance(payload)
    /\ holdings' = <<>>
    /\ transactions' = <<>>
    /\ currentPrices' = NoPrices
    /\ storage' = SaveToStorage(storage, ResetSaved(NewBalance(payload)))
    /\ UNCHANGED <<status, error, orders, issued>>
    /\ UNCHANGED <<api, stores>>

\* The page is loaded again: the store is rebuilt from local storage and the
\* thunks of the old page are gone.
PageLoad ==
    /\ holdings' = LoadFromStorage(storage).holdings
    /\ transactions' = LoadFromStorage(storage).transactions
    /\ cashBalance' = LoadFromStorage(storage).cashBalance
    /\ initialBalance' = LoadFromStorage(storage).initialBalance
    /\ currentPrices' = NoPrices
    /\ status' = "idle"
    /\ error' = Null
    /\ orders' = EmptyBag
    /\ UNCHANGED <<storage, issued>>
    /\ UNCHANGED <<api, stores>>

-----------------------------------------------------------------------------
(* Spec: every interleaving of the operations: an order may be dispatched,  *)
(* and the portfolio reset or the page reloaded, while other orders still   *)
(* await their price.                                                       *)

RoomForOrder == issued < MaxOrders /\ InFlight < MaxInFlight

BuyPending == RoomForOrder /\ \E symbol \in Symbols, shares \in ShareCounts :
                  ExecuteBuyOrderPending(symbol, shares) /\ UNCHANGED sinceReset

BuyFulfilled == \E o \in BagToSet(orders) : \E fetch \in FetchOutcomes(o.symbol) :
                    ExecuteBuyOrderFulfilled(o, fetch) /\ UNCHANGED sinceReset

BuyRejected == \E o \in BagToSet(orders) : \E fetch \in FetchOutcomes(o.symbol) :
                   ExecuteBuyOrderRejected(o, fetch) /\ UNCHANGED sinceReset

SellPending == RoomForOrder /\ \E symbol \in Symbols, shares \in ShareCounts :
                   ExecuteSellOrderPending(symbol, shares) /\ UNCHANGED sinceReset

SellFulfilled == \E o \in BagToSet(orders) : \E fetch \in FetchOutcomes(o.symbol) :
                     ExecuteSellOrderFulfilled(o, fetch) /\ UNCHANGED sinceReset

SellRejected == \E o \in BagToSet(orders) : \E fetch \in FetchOutcomes(o.symbol) :
                    ExecuteSellOrderRejected(o, fetch) /\ UNCHANGED sinceReset

Reset == ResetPortfolio /\ UNCHANGED sinceReset

Reconfigure == \E payload \in BalanceInputs :
                   SetInitialBalance(payload) /\ UNCHANGED sinceReset

Reload == PageLoad /\ UNCHANGED sinceReset

Next ==
    \/ BuyPending
    \/ BuyFulfilled
    \/ BuyRejected
    \/ SellPending
    \/ SellFulfilled
    \/ SellRejected
    \/ Reset
    \/ Reconfigure
    \/ Reload

Spec == Init /\ [][Next]_vars

-----------------------------------------------------------------------------
(* SeqSpec: the operations run one after another, as a sequence: an order   *)
(* is dispatched, the portfolio reset or the page reloaded only when no     *)
(* order awaits its price.                                                  *)

NoOrderInFlight == orders = EmptyBag

RoomForSeqOrder == issued < MaxSeqOrders /\ NoOrderInFlight

SeqBuyPending == RoomForSeqOrder /\ \E symbol \in Symbols, shares \in ShareCounts :
                     ExecuteBuyOrderPending(symbol, shares) /\ UNCHANGED sinceReset

SeqSellPending == RoomForSeqOrder /\ \E symbol \in Symbols, shares \in ShareCounts :
                      ExecuteSellOrderPending(symbol, shares) /\ UNCHANGED sinceReset

SeqReset == NoOrderInFlight /\ Reset

SeqReconfigure == NoOrderInFlight /\ Reconfigure

SeqPageLoad == NoOrderInFlight /\ Reload

SeqNext ==
    \/ SeqBuyPending
    \/ BuyFulfilled
    \/ BuyRejected
    \/ SeqSellPending
    \/ SellFulfilled
    \/ SellRejected
    \/ SeqReset
    \/ SeqReconfigure
    \/ SeqPageLoad

SeqSpec == Init /\ [][SeqNext]_vars

-----------------------------------------------------------------------------
(* The retry policy's decisions (retryWithBackoff), used by the request     *)
(* functions the queue runs and by the runs of retryWithBackoff below.      *)
(* An upstream call ends with an HTTP status; status 0 stands for an error  *)
(* without a response (error.response is undefined): a timeout of the       *)
(* request or a network failure.                                            *)

NoResponse == 0

\* Mutant of IsRetryable: an error without a response counts as retryable.
IsRetryableOrNoResponse(code) == code = NoResponse \/ code = 429 \/ code >= 500

\* const isRetryable = status === 429 || (status && status >= 500)
IsRetryable(code) == code = 429 \/ (code # NoResponse /\ code >= 500)

\* Math.pow(2, k)
RECURSIVE Pow2(_)
Pow2(k) == IF k = 0 THEN 1 ELSE 2 * Pow2(k - 1)

\* const delay = RETRY_BASE_DELAY * Math.pow(2, attempt)
BackoffDelay(attempt) == RETRY_BASE_DELAY * Pow2(attempt)

\* attempt === retries - 1
IsLastAttempt(attempt, retries) == attempt = retries - 1

\* Mutant of GivesUp: a non-retryable error is retried while attempts remain.
GivesUpOnlyAtTheEnd(code, attempt, retries) == IsLastAttempt(attempt, retries)

\* if (!isRetryable || attempt === retries - 1) throw lastError
GivesUp(code, attempt, retries) ==
    ~IsRetryable(code) \/ IsLastAttempt(attempt, retries)

-----------------------------------------------------------------------------
(* The request queue (class RequestQueue) and the request functions it      *)
(* runs.  A task is one call of add(); its number is its place in the order *)
(* of the add() calls.  Three kinds of request function are modelled:       *)
(*   "price"   - one upstream call per attempt, run under retryWithBackoff  *)
(*               (getPrice, searchSymbols, getHistoricalData);              *)
(*   "indices" - three upstream calls issued together and awaited with      *)
(*               Promise.all, each failure caught (getMarketIndices);       *)
(*   "movers"  - the same with five calls (getTopGainers, getTopLosers).    *)

\* QueueSpec: at most this many add() calls in a behaviour.
MaxTasks == 3

\* QueueSpec: the clock may be advanced freely for this many units of 100 ms.
MaxQueueTicks == 4

TaskKinds == {"price", "indices"}

\* HTTP statuses upstream answers a call of a queued request with.
QueueStatuses == {200, 404, 500}

\* Mutant of ParallelCalls: the calls of a request go out one at a time.
ParallelCallsOne(kind) == 1

\* const indices = [SPY, QQQ, DIA]; indices.map(async ...): calls issued at
\* once, and likewise stocks.map(async ...) for the five stocks of a movers list.
ParallelCalls(kind) == IF kind = "indices" THEN 3 ELSE IF kind = "movers" THEN 5 ELSE 1

\* The promise add() returns and the request function behind it.
NewTask(kind) ==
    [kind |-> kind, phase |-> "queued", calls |-> 0, attempt |-> 0, due |-> 0,
     error |-> NoResponse]

\* request() is called: the first attempt issues its upstream call(s).
StartRequest(t) == [t EXCEPT !.phase = "calling", !.calls = ParallelCalls(t.kind)]

\* An upstream call of task t ends with code at time clock.
AfterResponse(t, code, clock) ==
    IF t.kind \in {"indices", "movers"}
    THEN \* try { await apiClient.get } catch { data: null }; await Promise.all
         IF t.calls = 1 THEN [t EXCEPT !.calls = 0, !.phase = "resolved"]
                        ELSE [t EXCEPT !.calls = t.calls - 1]
    ELSE IF code = 200
         THEN [t EXCEPT !.calls = 0, !.phase = "resolved"]
         ELSE IF GivesUp(code, t.attempt, MAX_RETRIES)
              THEN [t EXCEPT !.calls = 0, !.phase = "rejected", !.error = code]
              ELSE [t EXCEPT !.calls = 0, !.phase = "backoff",
                             !.due = clock + BackoffDelay(t.attempt)]

Settled(t) == t.phase \in {"resolved", "rejected"}

Started(t) == t.phase # "queued"

Running(t) == t.phase \in {"calling", "backoff"}

\* Mutant of PacingWait: the time since the last request is not subtracted.
PacingWaitNone(clock, last) == 0

\* RATE_LIMIT_DELAY - timeSinceLastRequest, when that is positive.
PacingWait(clock, last) ==
    IF clock - last < RATE_LIMIT_DELAY THEN RATE_LIMIT_DELAY - (clock - last) ELSE 0

\* Mutant of NextRequest: the newest closure is taken.
NextRequestLast(q) == q[Len(q)]

\* const request = this.queue.shift(): the closure taken
NextRequest(q) == Head(q)

\* this.queue.shift(): the closures left
ShiftRest(q, id) ==
    SelectSeq(q, LAMBDA x : x # id)

\* Mutant of LoopAwaits: request() is not awaited.
LoopAwaitsNothing(id, ts) == "resume"

\* Mutant of LoopAwaits: a rejection is not caught by the closure and ends
\* processQueue() with isProcessing still set.
LoopAwaitsRejectionEscapes(id, ts) ==
    IF ts[id].phase = "resolved" THEN "resume"
    ELSE IF ts[id].phase = "rejected" THEN "dead" ELSE "request"

\* await request(): the closure catches what the request throws, so the loop
\* continues as soon as the promise of the task is settled, either way.
LoopAwaits(id, ts) == IF Settled(ts[id]) THEN "resume" ELSE "request"

\* this.lastRequestTime = Date.now(); const request = this.queue.shift();
\* await request(): the request function starts and the loop awaits it.
Dispatch(q, ts) ==
    LET id == NextRequest(q) IN
    /\ isProcessing' = TRUE
    /\ lastRequestTime' = now
    /\ queue' = ShiftRest(q, id)
    /\ tasks' = [ts EXCEPT ![id] = StartRequest(@)]
    /\ drain' = [pc |-> LoopAwaits(id, tasks'), due |-> 0, task |-> id]
    /\ starts' = Append(starts, [task |-> id, at |-> now])

\* Mutant of RunLoop: the loop ends without clearing isProcessing.
RunLoopKeepsFlag(q, ts) ==
    IF Len(q) = 0
    THEN /\ isProcessing' = TRUE
         /\ drain' = DrainIdle
         /\ queue' = q
         /\ tasks' = ts
         /\ UNCHANGED <<lastRequestTime, starts>>
    ELSE IF PacingWait(now, lastRequestTime) > 0
         THEN /\ isProcessing' = TRUE
              /\ drain' = [pc |-> "timer", task |-> 0,
                           due |-> now + PacingWait(now, lastRequestTime)]
              /\ queue' = q
              /\ tasks' = ts
              /\ UNCHANGED <<lastRequestTime, starts>>
         ELSE Dispatch(q, ts)

\* processQueue() from the test of its while loop to its next await (or its
\* end), with q the queue and ts the tasks at that point.
RunLoop(q, ts) ==
    IF Len(q) = 0
    THEN /\ isProcessing' = FALSE
         /\ drain' = DrainIdle
         /\ queue' = q
         /\ tasks' = ts
         /\ UNCHANGED <<lastRequestTime, starts>>
    ELSE IF PacingWait(now, lastRequestTime) > 0
         THEN /\ isProcessing' = TRUE
              /\ drain' = [pc |-> "timer", task |-> 0,
                           due |-> now + PacingWait(now, lastRequestTime)]
              /\ queue' = q
              /\ tasks' = ts
              /\ UNCHANGED <<lastRequestTime, starts>>
         ELSE Dispatch(q, ts)

\* The variables of the data-access layer the queue does not touch.
besideQueue == <<retry, cache, written, lastGet, chart, stores>>

\* requestQueue.add(request): push the closure, then processQueue(), which
\* returns at once when the loop is already running.
Enqueue(kind) ==
    LET q == Append(queue, Len(tasks) + 1)
        ts == Append(tasks, NewTask(kind))
    IN  IF isProcessing
        THEN /\ queue' = q
             /\ tasks' = ts
             /\ UNCHANGED <<isProcessing, lastRequestTime, drain, starts>>
        ELSE RunLoop(q, ts)

\* requestQueue.add(request) by a caller that is not modelled further.
Add(kind) ==
    /\ Enqueue(kind)
    /\ UNCHANGED <<now, portfolio, besideQueue>>

\* The pacing timer of processQueue() fires, at or after its time.
TimerFires ==
    /\ drain.pc = "timer"
    /\ now >= drain.due
    /\ Dispatch(queue, tasks)
    /\ UNCHANGED <<now, portfolio, besideQueue>>

\* An upstream call of task id ends; when that settles the task, the closure
\* resolves or rejects the promise of its add() and returns to the loop.
HttpResponse(id, code) ==
    /\ tasks[id].phase = "calling"
    /\ tasks[id].calls > 0
    /\ tasks' = [tasks EXCEPT ![id] = AfterResponse(@, code, now)]
    /\ drain' = IF drain.pc = "request" /\ drain.task = id
                THEN [drain EXCEPT !.pc = LoopAwaits(id, tasks')]
                ELSE drain
    /\ UNCHANGED <<now, queue, isProcessing, lastRequestTime, starts,
                   portfolio, besideQueue>>

\* The backoff timer of a task's retryWithBackoff fires: the next attempt.
BackoffElapsed(id) ==
    /\ tasks[id].phase = "backoff"
    /\ now >= tasks[id].due
    /\ tasks' = [tasks EXCEPT ![id] = [@ EXCEPT !.phase = "calling", !.calls = 1,
                                                 !.attempt = @ + 1]]
    /\ UNCHANGED <<now, queue, isProcessing, lastRequestTime, drain, starts,
                   portfolio, besideQueue>>

\* await request() returns in processQueue(): back to the test of the loop.
LoopResumes ==
    /\ drain.pc = "resume"
    /\ RunLoop(queue, tasks)
    /\ UNCHANGED <<now, portfolio, besideQueue>>

\* Some timer of the queue or of a task has not reached its time.
TimerPending ==
    \/ drain.pc = "timer" /\ now < drain.due
    \/ \E id \in 1..Len(tasks) : tasks[id].phase = "backoff" /\ now < tasks[id].due

\* Time passes, 100 ms at a time.
QTick ==
    /\ now + 100 <= PageLoadTime + MaxQueueTicks * 100 \/ TimerPending
    /\ now' = now + 100
    /\ UNCHANGED <<queue, isProcessing, lastRequestTime, drain, tasks, starts,
                   portfolio, besideQueue>>

QResponse == \E id \in 1..Len(tasks) : \E code \in QueueStatuses : HttpResponse(id, code)

QBackoff == \E id \in 1..Len(tasks) : BackoffElapsed(id)

QueueNext ==
    \/ Len(tasks) < MaxTasks /\ \E kind \in TaskKinds : Add(kind)
    \/ TimerFires
    \/ QResponse
    \/ QBackoff
    \/ LoopResumes
    \/ QTick

QueueSpec == Init /\ [][QueueNext]_vars

\* Upstream calls end (axios gives up after its timeout), timers fire, the
\* event loop runs the continuations that are ready, and time passes.
QueueFairness ==
    /\ WF_vars(TimerFires)
    /\ WF_vars(QResponse)
    /\ WF_vars(QBackoff)
    /\ WF_vars(LoopResumes)
    /\ WF_vars(QTick)

QueueFairSpec == QueueSpec /\ QueueFairness

-----------------------------------------------------------------------------
(* A run of retryWithBackoff(fn, retries).  retry.calls lists the attempts  *)
(* at which fn was invoked, retry.raised what fn threw, retry.waits the     *)
(* delays the run asked setTimeout for, each with the attempt it precedes.  *)
(* An error is a record: the attempt that raised it, the HTTP status of its *)
(* response (NoResponse when it has none) and whether it is an Error        *)
(* object; every error of the upstream client (axios) is one.               *)

\* RetrySpec: the largest retry budget a run is started with.
MaxBudget == 3

\* RetrySpec: the clock may be advanced freely for this many units of 500 ms.
MaxRetryTicks == 2

RetryBudgets == 0..MaxBudget

\* What an attempt may fail with: no response (a timeout of the request),
\* a client error, a rate limit, server errors.
RetryStatuses == {NoResponse, 404, 429, 500, 503}

\* The error thrown by fn at an attempt.
Raised(attempt, code) == [raisedAt |-> attempt, status |-> code, isError |-> TRUE]

\* new Error(String(error))
Wrapped(e) == [raisedAt |-> e.raisedAt, status |-> NoResponse, isError |-> TRUE,
               message |-> "wrapped"]

\* Mutant of AsError: the error is always replaced by a new Error.
AsErrorAlwaysWraps(e) == Wrapped(e)

\* error instanceof Error ? error : new Error(String(error))
AsError(e) == IF e.isError THEN e ELSE Wrapped(e)

\* for (let attempt = 0; attempt < retries; attempt++): the test of the loop
\* at attempt, on a run r; fn() is invoked, or the loop ends and lastError is
\* thrown.
LoopTest(r, attempt) ==
    IF attempt < r.retries
    THEN [r EXCEPT !.pc = "calling", !.attempt = attempt,
                   !.calls = Append(r.calls, attempt)]
    ELSE [r EXCEPT !.pc = "done", !.attempt = attempt,
                   !.outcome = Some([ok |-> FALSE, error |-> r.lastError])]

\* The catch block for error e thrown at time clock.
Caught(r, e, clock) ==
    LET lastError == Some(AsError(e)) IN
    IF GivesUp(e.status, r.attempt, r.retries)
    THEN [r EXCEPT !.pc = "done", !.lastError = lastError,
                   !.raised = Append(r.raised, e),
                   !.outcome = Some([ok |-> FALSE, error |-> lastError])]
    ELSE [r EXCEPT !.pc = "waiting", !.lastError = lastError,
                   !.raised = Append(r.raised, e),
                   !.due = clock + BackoffDelay(r.attempt),
                   !.waits = Append(r.waits, [before |-> r.attempt + 1,
                                              delay |-> BackoffDelay(r.attempt)])]

\* The variables of the data-access layer a run of retryWithBackoff leaves alone.
besideRetry == <<queue, isProcessing, lastRequestTime, drain, tasks, starts,
                 cache, written, lastGet, chart, stores>>

\* retryWithBackoff(fn, retries) is called.
RetryWithBackoff(retries) ==
    /\ retry.pc = "idle"
    /\ retry' = LoopTest([RetryIdle EXCEPT !.retries = retries], 0)
    /\ UNCHANGED <<now, portfolio, besideRetry>>

\* return await fn(): fn resolves.
FnResolves ==
    /\ retry.pc = "calling"
    /\ retry' = [retry EXCEPT !.pc = "done", !.outcome = Some([ok |-> TRUE])]
    /\ UNCHANGED <<now, portfolio, besideRetry>>

\* await fn() throws an error with HTTP status code (or without a response).
FnRejects(code) ==
    /\ retry.pc = "calling"
    /\ retry' = Caught(retry, Raised(retry.attempt, code), now)
    /\ UNCHANGED <<now, portfolio, besideRetry>>

\* The backoff timer fires, at or after its time: attempt++ and the loop test.
RetryTimerFires ==
    /\ retry.pc = "waiting"
    /\ now >= retry.due
    /\ retry' = LoopTest(retry, retry.attempt + 1)
    /\ UNCHANGED <<now, portfolio, besideRetry>>

\* Time passes.
RetryTick ==
    /\ \/ now + 500 <= PageLoadTime + MaxRetryTicks * 500
       \/ retry.pc = "waiting" /\ now < retry.due
    /\ now' = now + 500
    /\ UNCHANGED <<retry, portfolio, besideRetry>>

RetryFnRejects == \E code \in RetryStatuses : FnRejects(code)

RetryNext ==
    \/ \E retries \in RetryBudgets : RetryWithBackoff(retries)
    \/ FnResolves
    \/ RetryFnRejects
    \/ RetryTimerFires
    \/ RetryTick

RetrySpec == Init /\ [][RetryNext]_vars

\* fn settles (the upstream client gives up after its timeout), timers fire
\* and time passes.
RetryFairness ==
    /\ WF_vars(FnResolves \/ RetryFnRejects)
    /\ WF_vars(RetryTimerFires)
    /\ WF_vars(RetryTick)

RetryFairSpec == RetrySpec /\ RetryFairness

-----------------------------------------------------------------------------
(* The response cache (class ApiCache).  An entry is the data with the time *)
(* it was written.  written is what the users of the cache did to each key: *)
(* the last set() that no invalidate() or clear() has followed; a get()     *)
(* does not change it.                                                      *)

\* CacheSpec: the clock may be advanced this many times.
MaxCacheTicks == 3

\* The clock advances of CacheSpec, in milliseconds: two of the first make
\* exactly CACHE_TTL, one of each a millisecond more.
CacheClockSteps == {30000, 30001}

\* The values cached under the keys: prices (0 when the quote has none).
CacheData == {0, 150}

\* { data, timestamp: Date.now() }
CacheEntry(data, clock) == [data |-> data, timestamp |-> clock]

\* Mutant of Expired: an entry expires as soon as its age reaches the TTL.
ExpiredAtTtl(entry, clock) == clock - entry.timestamp >= CACHE_TTL

\* Date.now() - entry.timestamp > CACHE_TTL
Expired(entry, clock) == clock - entry.timestamp > CACHE_TTL

\* What get(key) returns on store c at time clock: the data, or null.
GetResult(c, key, clock) ==
    IF c[key] = None THEN None
    ELSE IF Expired(c[key][1], clock) THEN None
    ELSE Some(c[key][1].data)

\* Mutant of GetStore: an expired entry is left in the store.
GetStoreKeepsExpired(c, key, clock) == c

\* The store after get(key): this.cache.delete(key) for an expired entry.
GetStore(c, key, clock) ==
    IF c[key] # None /\ Expired(c[key][1], clock)
    THEN [c EXCEPT ![key] = None]
    ELSE c

\* The variables of the data-access layer the cache does not touch.
besideCache == <<queue, isProcessing, lastRequestTime, drain, tasks, starts,
                 retry, chart, stores>>

\* apiCache.get(key)
CacheGet(key) ==
    /\ lastGet' = Some([key |-> key, result |-> GetResult(cache, key, now), at |-> now])
    /\ cache' = GetStore(cache, key, now)
    /\ UNCHANGED <<written, now, portfolio, besideCache>>

\* apiCache.set(key, data)
CacheSet(key, data) ==
    /\ cache' = [cache EXCEPT ![key] = Some(CacheEntry(data, now))]
    /\ written' = [written EXCEPT ![key] = Some(CacheEntry(data, now))]
    /\ UNCHANGED <<lastGet, now, portfolio, besideCache>>

\* apiCache.invalidate(key)
CacheInvalidate(key) ==
    /\ cache' = [cache EXCEPT ![key] = None]
    /\ written' = [written EXCEPT ![key] = None]
    /\ UNCHANGED <<lastGet, now, portfolio, besideCache>>

\* apiCache.clear()
CacheClear ==
    /\ cache' = EmptyCache
    /\ written' = EmptyCache
    /\ UNCHANGED <<lastGet, now, portfolio, besideCache>>

\* Time passes.
CacheTick(d) ==
    /\ now' = now + d
    /\ UNCHANGED <<cache, written, lastGet, portfolio, besideCache>>

CacheNext ==
    \/ \E key \in CacheKeys : CacheGet(key)
    \/ \E key \in CacheKeys, data \in CacheData : CacheSet(key, data)
    \/ \E key \in CacheKeys : CacheInvalidate(key)
    \/ CacheClear
    \/ \E d \in CacheClockSteps :
           /\ (now + d - PageLoadTime) \div 30000 <= MaxCacheTicks
           /\ CacheTick(d)

CacheSpec == Init /\ [][CacheNext]_vars

-----------------------------------------------------------------------------
(* getHistoricalData and the synthetic series of generateMockHistoricalData.*)
(* A time value is a whole number of hours since 1970-01-01T00:00Z; a Date  *)
(* is read and changed in local time (getDate, setDate) and printed in UTC  *)
(* (toISOString).  A time zone has a standard and a daylight-saving offset  *)
(* (local = UTC + offset, in hours) and the time values between which the   *)
(* daylight-saving offset is in force.  A date text is a sequence of        *)
(* characters.  The prices and volumes of the points (Math.random) are left *)
(* out: a point is its date.                                                *)

TimeRanges == {"1D", "1W", "1M", "3M", "6M", "1Y", "5Y"}

\* const points: Record<TimeRange, number>
Points(timeRange) ==
    CASE timeRange = "1D" -> 78
      [] timeRange = "1W" -> 35
      [] timeRange = "1M" -> 22
      [] timeRange = "3M" -> 65
      [] timeRange = "6M" -> 130
      [] timeRange = "1Y" -> 52
      [] timeRange = "5Y" -> 60

\* The day number (days since 1970-01-01) of year y, month m, day-of-month d
\* of the Gregorian calendar; d outside the month counts on into the months
\* before and after, as setDate does.
DaysFromCivil(y, m, d) ==
    LET yy  == IF m <= 2 THEN y - 1 ELSE y
        era == yy \div 400
        yoe == yy - era * 400
        mp  == IF m > 2 THEN m - 3 ELSE m + 9
        doy == (153 * mp + 2) \div 5 + d - 1
        doe == yoe * 365 + yoe \div 4 - yoe \div 100 + doy
    IN  era * 146097 + doe - 719468

\* The year, month and day-of-month of a day number.
CivilFromDays(z) ==
    LET zz  == z + 719468
        era == zz \div 146097
        doe == zz - era * 146097
        yoe == (doe - doe \div 1460 + doe \div 36524 - doe \div 146096) \div 365
        doy == doe - (365 * yoe + yoe \div 4 - yoe \div 100)
        mp  == (5 * doy + 2) \div 153
        d   == doy - (153 * mp + 2) \div 5 + 1
        m   == IF mp < 10 THEN mp + 3 ELSE mp - 9
    IN  [y |-> yoe + era * 400 + (IF m <= 2 THEN 1 ELSE 0), m |-> m, d |-> d]

\* The time value of hour h (UTC) of a calendar day.
UtcHour(y, m, d, h) == DaysFromCivil(y, m, d) * 24 + h

\* The time zones the page is used in, with their daylight-saving time of 2024.
Zones ==
    { [name |-> "UTC", std |-> 0, dst |-> 0, dstStart |-> 0, dstEnd |-> 0],
      [name |-> "Europe/Istanbul", std |-> 3, dst |-> 3, dstStart |-> 0, dstEnd |-> 0],
      [name |-> "Europe/Berlin", std |-> 1, dst |-> 2,
       dstStart |-> UtcHour(2024, 3, 31, 1), dstEnd |-> UtcHour(2024, 10, 27, 1)],
      [name |-> "America/New_York", std |-> -5, dst |-> -4,
       dstStart |-> UtcHour(2024, 3, 10, 7), dstEnd |-> UtcHour(2024, 11, 3, 6)] }

\* The values of Date.now() a chart is asked for at.
ChartInstants ==
    { UtcHour(2024, 3, 1, h) : h \in {0, 1, 12, 23} }
        \cup { UtcHour(2024, 4, 1, h) : h \in {0, 1, 12, 23} }
        \cup { UtcHour(2024, 11, 4, h) : h \in {0, 1, 12, 23} }

\* The offset of local time at time value t.
Offset(t, zone) == IF zone.dstStart <= t /\ t < zone.dstEnd THEN zone.dst ELSE zone.std

\* The time value of local time l: a local time that occurs twice or not at
\* all is read with the offset in force before the change.
UtcOf(l, zone) ==
    IF Offset(l - zone.dst, zone) = zone.dst THEN l - zone.dst ELSE l - zone.std

\* date.setDate(date.getDate() - i) on a Date of time value t
SetDateBack(t, zone, i) ==
    LET l == t + Offset(t, zone)
        c == CivilFromDays(l \div 24)
    IN  UtcOf(DaysFromCivil(c.y, c.m, c.d - i) * 24 + (l % 24), zone)

\* Number text of at least two digits.
Pad2(n) == IF n < 10 THEN <<"0">> \o NatToString(n) ELSE NatToString(n)

\* date.toISOString().split('T')[0]: the UTC date, as YYYY-MM-DD
IsoDate(t) ==
    LET c == CivilFromDays(t \div 24)
    IN  NatToString(c.y) \o <<"-">> \o Pad2(c.m) \o <<"-">> \o Pad2(c.d)

\* Mutant of DayIndex: the loop runs from numPoints down to 1.
DayIndexFromOne(numPoints, k) == numPoints - k + 1

\* for (let i = numPoints - 1; i >= 0; i--): the value of i when the k-th
\* point is pushed.
DayIndex(numPoints, k) == numPoints - k

\* generateMockHistoricalData(timeRange), called at time value clock.
GenerateMockHistoricalData(timeRange, clock, zone) ==
    [k \in 1..Points(timeRange) |->
        [date |-> IsoDate(SetDateBack(clock, zone, DayIndex(Points(timeRange), k)))]]

\* What upstream answers GET /stock/candle with: no data, a body without
\* candles, candles at the given times, or an error.
CandleResponses(clock) ==
    { [s |-> "no_data", t |-> <<>>, failed |-> FALSE],
      [s |-> "none", t |-> <<>>, failed |-> FALSE],
      [s |-> "ok", t |-> <<clock - 48, clock - 24>>, failed |-> FALSE],
      [s |-> "error", t |-> <<>>, failed |-> TRUE] }

\* Mutant of UsesMock: synthetic data only for a body without candles.
UsesMockWithoutCandlesOnly(data) == data.s = "none"

\* data.s === 'no_data' || !data.c
UsesMock(data) == data.s = "no_data" \/ data.s = "none"

\* data.c.map((close, index) => ({ date: new Date(data.t[index] * 1000)... }))
CandlePoints(data) == [k \in 1..Len(data.t) |-> [date |-> IsoDate(data.t[k])]]

\* The variables of the data-access layer a chart request leaves alone.
besideChart == <<now, queue, isProcessing, lastRequestTime, drain, tasks, starts,
                 retry, cache, written, lastGet, stores>>

\* stockApi.getHistoricalData(symbol, timeRange) at time value clock in a
\* browser in time zone zone, with upstream answering data: the request
\* function of lines 279-307.
GetHistoricalData(timeRange, clock, zone, data) ==
    /\ chart' = Some([timeRange |-> timeRange, clock |-> clock, zone |-> zone,
                      data |-> data,
                      points |-> IF data.failed THEN None
                                 ELSE IF UsesMock(data)
                                      THEN Some(GenerateMockHistoricalData(timeRange, clock, zone))
                                      ELSE Some(CandlePoints(data))])
    /\ UNCHANGED <<portfolio, besideChart>>

\* One chart request in a behaviour: what a request returns does not depend
\* on the requests before it.
ChartRequest ==
    /\ chart = None
    /\ \E timeRange \in TimeRanges, clock \in ChartInstants, zone \in Zones :
           \E data \in CandleResponses(clock) :
               GetHistoricalData(timeRange, clock, zone, data)

ChartSpec == Init /\ [][ChartRequest]_vars

-----------------------------------------------------------------------------
(* Properties.  In the step formulas below, o ranges over the orders in     *)
(* flight and fetch over the outcomes of the order's price lookup.          *)

HoldingOf(hs, symbol) == Find(hs, symbol)

\* The step settles order o with price lookup outcome fetch.
Settles(o, fetch) ==
    \/ ExecuteBuyOrderFulfilled(o, fetch)
    \/ ExecuteBuyOrderRejected(o, fetch)
    \/ ExecuteSellOrderFulfilled(o, fetch)
    \/ ExecuteSellOrderRejected(o, fetch)

(* C1: in every sequence of buy and sell orders (positive share counts,    *)
(* non-negative prices, a non-negative starting balance) the cash balance   *)
(* is never negative, and a buy whose price x shares exceeds the cash       *)
(* balance is not executed: it ends rejected for insufficient funds with    *)
(* the ledger and local storage unchanged.                                  *)
C1_OverdraftRejected ==
    \A o \in BagToSet(orders) : \A fetch \in FetchOutcomes(o.symbol) :
        (o.kind = "buy" /\ fetch.ok /\ fetch.price * o.shares > cashBalance)
            => /\ ~ExecuteBuyOrderFulfilled(o, fetch)
               /\ Settles(o, fetch) => /\ UNCHANGED ledger
                                       /\ status' = "failed"
                                       /\ error' = "Insufficient funds"

C1_CashNeverNegative == [](cashBalance >= 0) /\ [][C1_OverdraftRejected]_vars

\* A buy has been rejected for insufficient funds after an earlier buy was
\* executed: 5 @ 150 bought from a balance of 1000 leaves 250.
C1_Witness ==
    /\ status = "failed" /\ error = "Insufficient funds"
    /\ Len(transactions) = 1 /\ cashBalance = 250

\* The order is one its thunk rejects, given what it read and the outcome of
\* its price lookup: a buy whose price is unavailable or whose cost exceeds
\* the cash; a sell of a symbol not held, of more shares than held, or whose
\* price is unavailable.
MustReject(o, fetch) ==
    IF o.kind = "buy"
    THEN ~fetch.ok \/ fetch.price = 0 \/ fetch.price * o.shares > o.cashBalance
    ELSE \/ o.existing = None
         \/ o.shares > o.existing[1].shares
         \/ ~fetch.ok \/ fetch.price = 0

\* The step dispatches an order.
Dispatches ==
    \E symbol \in Symbols, shares \in ShareCounts :
        \/ ExecuteBuyOrderPending(symbol, shares)
        \/ ExecuteSellOrderPending(symbol, shares)

(* C2: a rejected order has no side effect on the ledger: neither its       *)
(* dispatch nor its rejection changes cashBalance, holdings, transactions   *)
(* or any of the persisted values; the rejection changes only status (to    *)
(* failed) and error (to the message).                                      *)
C2_RejectedStep ==
    /\ Dispatches => UNCHANGED <<cashBalance, holdings, transactions,
                                 initialBalance, currentPrices, storage>>
    /\ \A o \in BagToSet(orders) : \A fetch \in FetchOutcomes(o.symbol) :
        (Settles(o, fetch) /\ MustReject(o, fetch))
            => /\ UNCHANGED <<cashBalance, holdings, transactions,
                              initialBalance, currentPrices, storage>>
               /\ status' = "failed"
               /\ error' # Null

C2_RejectedOrderHasNoEffect == [][C2_RejectedStep]_vars

\* A sell of a symbol that is not held has been rejected while another
\* symbol is held, after one executed buy.
C2_Witness ==
    /\ status = "failed" /\ error = "You don't own any shares"
    /\ Len(holdings) = 1 /\ Len(transactions) = 1
    /\ storage[STORAGE_KEYS.holdings] = Some(JsonStringify(holdings))

(* C3: in every reachable state every holding has                           *)
(* totalCost = shares x averageCost, exactly.                               *)
C3_TotalCostIsSharesTimesAverage ==
    \A i \in 1..Len(holdings) :
        holdings[i].totalCost = RatMul(IntRat(holdings[i].shares), holdings[i].averageCost)

\* A holding whose average cost is not a whole number: 10 @ 150 and 5 @ 200
\* average to 500/3.
C3_Witness ==
    \E i \in 1..Len(holdings) :
        /\ holdings[i].averageCost = <<500, 3>>
        /\ holdings[i].shares = 15
        /\ holdings[i].totalCost = <<2500, 1>>

(* C4: a fulfilled buy of n shares at price p creates the holding           *)
(* {shares n, averageCost p, totalCost p x n} when the symbol is not held,  *)
(* and when it is held sets shares = old shares + n, totalCost = old        *)
(* totalCost + p x n, averageCost = totalCost / shares; either way the cash *)
(* balance decreases by exactly p x n.                                      *)
C4_BuyStep ==
    \A o \in BagToSet(orders) : \A fetch \in FetchOutcomes(o.symbol) :
        ExecuteBuyOrderFulfilled(o, fetch) =>
            LET n   == o.shares
                p   == fetch.price
                old == HoldingOf(holdings, o.symbol)
                new == HoldingOf(holdings', o.symbol)
            IN  /\ new # None
                /\ old = None =>
                    /\ new[1].shares = n
                    /\ new[1].averageCost = <<p, 1>>
                    /\ new[1].totalCost = <<p * n, 1>>
                /\ old # None =>
                    /\ new[1].shares = old[1].shares + n
                    /\ new[1].totalCost = RatAdd(old[1].totalCost, <<p * n, 1>>)
                    /\ new[1].averageCost = RatDiv(new[1].totalCost, <<new[1].shares, 1>>)
                /\ cashBalance' = cashBalance - p * n
                /\ \A s \in Symbols \ {o.symbol} :
                       HoldingOf(holdings', s) = HoldingOf(holdings, s)

C4_BuyEffect == [][C4_BuyStep]_vars

\* The example: 10 AAPL @ 150 then 5 more @ 180 from a cash balance of 100000.
C4_Witness ==
    /\ cashBalance = 97600
    /\ holdings = <<[symbol |-> "AAPL", name |-> "Apple Inc", shares |-> 15,
                     averageCost |-> <<160, 1>>, totalCost |-> <<2400, 1>>]>>
    /\ Len(transactions) = 2
    /\ transactions[1].price = 180 /\ transactions[1].shares = 5
    /\ transactions[2].price = 150 /\ transactions[2].shares = 10

(* C5: a fulfilled sell of k shares at price p, k fewer than the shares     *)
(* held, leaves the holding's averageCost unchanged, sets shares = held - k *)
(* and totalCost = averageCost x (held - k), and increases the cash balance *)
(* by exactly p x k.                                                        *)
C5_SellStep ==
    \A o \in BagToSet(orders) : \A fetch \in FetchOutcomes(o.symbol) :
        LET k   == o.shares
            p   == fetch.price
            old == HoldingOf(holdings, o.symbol)
            new == HoldingOf(holdings', o.symbol)
        IN  (ExecuteSellOrderFulfilled(o, fetch) /\ old # None /\ k < old[1].shares) =>
                /\ new # None
                /\ new[1].averageCost = old[1].averageCost
                /\ new[1].shares = old[1].shares - k
                /\ new[1].totalCost = RatMul(old[1].averageCost, <<old[1].shares - k, 1>>)
                /\ cashBalance' = cashBalance + p * k
                /\ \A s \in Symbols \ {o.symbol} :
                       HoldingOf(holdings', s) = HoldingOf(holdings, s)

C5_PartialSellEffect == [][C5_SellStep]_vars

\* The example: 5 sold @ 200 from {15 shares, average 160} and cash 97600.
C5_Witness ==
    /\ cashBalance = 98600
    /\ holdings = <<[symbol |-> "AAPL", name |-> "Apple Inc", shares |-> 10,
                     averageCost |-> <<160, 1>>, totalCost |-> <<1600, 1>>]>>
    /\ Len(transactions) = 3
    /\ transactions[1].type = "sell"
    /\ transactions[1].price = 200 /\ transactions[1].shares = 5

(* C6: in every reachable state every holding present has shares > 0, and  *)
(* a fulfilled sell of all the shares it found held removes the holding     *)
(* from the holdings list, and the symbol's entry from currentPrices.       *)
C6_SellAllStep ==
    \A o \in BagToSet(orders) : \A fetch \in FetchOutcomes(o.symbol) :
        (/\ ExecuteSellOrderFulfilled(o, fetch)
         /\ o.existing # None
         /\ o.shares = o.existing[1].shares)
            => /\ HoldingOf(holdings', o.symbol) = None
               /\ o.symbol \notin DOMAIN currentPrices'

C6_HoldingsHavePositiveShares ==
    /\ [](\A i \in 1..Len(holdings) : holdings[i].shares > 0)
    /\ [][C6_SellAllStep]_vars

\* All 10 shares of the only holding have been sold.
C6_Witness ==
    /\ Len(transactions) = 2
    /\ transactions[1].type = "sell" /\ transactions[1].shares = 10
    /\ transactions[2].type = "buy" /\ transactions[2].shares = 10
    /\ holdings = <<>>
    /\ DOMAIN currentPrices = {}

(* C7: round trip.  From every reachable state, for every symbol not held   *)
(* and every price p and share count n with p x n <= cash, a buy of n       *)
(* shares at p followed by a sell of all n shares at p is executed, returns *)
(* the cash balance to exactly what it was, and leaves the symbol not held; *)
(* and when the log holds exactly such a buy and sell, the cash balance is  *)
(* the balance the portfolio started from.                                  *)
C7_RoundTripFromHere ==
    \A s \in Symbols : \A n \in ShareCounts : \A p \in Quotes(s) \ {0} :
        (HoldingOf(holdings, s) = None /\ p * n <= cashBalance) =>
            LET quote  == [ok |-> TRUE, price |-> p]
                bought == BuyThunk(ClosureOf("buy", s, DisplayName(s), n,
                                             cashBalance, holdings), quote)
                h1     == PutHolding(holdings, bought.holding[1])
                sold   == SellThunk(ClosureOf("sell", s, Null, n,
                                              bought.newCashBalance, h1), quote)
                h2     == UpdateOrRemoveHolding(h1, sold.holding, s)
            IN  /\ bought.ok
                /\ sold.ok
                /\ sold.newCashBalance = cashBalance
                /\ HoldingOf(h2, s) = None
                /\ \A t \in Symbols \ {s} : HoldingOf(h2, t) = HoldingOf(holdings, t)

C7_RoundTripRun ==
    (/\ Len(transactions) = 2
     /\ transactions[2].type = "buy"
     /\ transactions[1] = [transactions[2] EXCEPT !.type = "sell"])
        => /\ cashBalance = initialBalance
           /\ HoldingOf(holdings, transactions[1].symbol) = None

C8_LogStep ==
    /\ \A o \in BagToSet(orders) : \A fetch \in FetchOutcomes(o.symbol) :
        /\ (ExecuteBuyOrderFulfilled(o, fetch) \/ ExecuteSellOrderFulfilled(o, fetch))
            => /\ Len(transactions') = Len(transactions) + 1
               /\ Tail(transactions') = transactions
               /\ Head(transactions').type = o.kind
               /\ Head(transactions').symbol = o.symbol
               /\ Head(transactions').shares = o.shares
               /\ Head(transactions').price = fetch.price
               /\ Head(transactions').total = o.shares * fetch.price
        /\ (ExecuteBuyOrderRejected(o, fetch) \/ ExecuteSellOrderRejected(o, fetch))
            => transactions' = transactions
    /\ \/ transactions' = transactions
       \/ /\ transactions' # <<>>
          /\ Tail(transactions') = transactions
          /\ \E o \in BagToSet(orders) : \E fetch \in FetchOutcomes(o.symbol) :
                ExecuteBuyOrderFulfilled(o, fetch) \/ ExecuteSellOrderFulfilled(o, fetch)
       \/ /\ transactions' = <<>>
          /\ ResetPortfolio \/ \E payload \in BalanceInputs : SetInitialBalance(payload)

C8_LogIsAppendOnlyNewestFirst == [][C8_LogStep]_vars

\* A sell, which can only follow the buy of its shares, heads the log.
C8_Witness ==
    /\ Len(transactions) = 2
    /\ transactions[1].type = "sell" /\ transactions[1].symbol = "MSFT"
    /\ transactions[2].type = "buy" /\ transactions[2].symbol = "MSFT"
    /\ transactions[1].shares = 5 /\ transactions[2].shares = 10

\* The portfolio, in memory and as a page load would read it back from
\* local storage, is cleared with cash and initial balance b, and all four
\* keys are stored.
Cleared(b) ==
    /\ holdings' = <<>>
    /\ transactions' = <<>>
    /\ DOMAIN currentPrices' = {}
    /\ cashBalance' = b
    /\ initialBalance' = b
    /\ \A k \in StorageKeySet : storage'[k] # None
    /\ LoadFromStorage(storage') =
           [holdings |-> <<>>, transactions |-> <<>>,
            cashBalance |-> b, initialBalance |-> b]

(* C9: resetPortfolio and setInitialBalance(x) can be taken in every state  *)
(* and clear the portfolio: holdings = [], transactions = [],               *)
(* currentPrices = {}, cashBalance = initialBalance = 100000 for            *)
(* resetPortfolio and max(0, x) for setInitialBalance(x), with the four     *)
(* persisted values rewritten to that state in the same step.               *)
C9_ResetStep ==
    /\ ResetPortfolio => Cleared(100000)
    /\ \A x \in BalanceInputs :
           SetInitialBalance(x) => Cleared(IF x >= 0 THEN x ELSE 0)

C9_ResetClearsEverything ==
    /\ [](ENABLED ResetPortfolio /\ \A x \in BalanceInputs : ENABLED SetInitialBalance(x))
    /\ [][C9_ResetStep]_vars

\* setInitialBalance(-100) has cleared a portfolio in which an order had
\* been executed: the balance is max(0, -100) = 0, stored as "0".
C9_Witness ==
    /\ status = "succeeded"
    /\ holdings = <<>> /\ transactions = <<>>
    /\ cashBalance = 0 /\ initialBalance = 0
    /\ storage[STORAGE_KEYS.cashBalance] = Some(<<"0">>)

(* C10: persistence tracks memory: in every reachable state the holdings,   *)
(* transactions and cash balance that local storage holds (as a page load   *)
(* reads them) are the in-memory holdings, transactions and cashBalance.    *)
C10_StorageTracksMemory ==
    /\ LoadFromStorage(storage).holdings = holdings
    /\ LoadFromStorage(storage).transactions = transactions
    /\ LoadFromStorage(storage).cashBalance = cashBalance
    /\ transactions # <<>> =>
        /\ storage[STORAGE_KEYS.holdings] = Some(JsonStringify(holdings))
        /\ storage[STORAGE_KEYS.transactions] = Some(JsonStringify(transactions))
        /\ storage[STORAGE_KEYS.cashBalance] = Some(NumberToString(cashBalance))

\* After a buy and a partial sell local storage holds the holding left, both
\* records and the cash.
C10_Witness ==
    /\ Len(transactions) = 2 /\ Len(holdings) = 1
    /\ transactions[1].type = "sell"
    /\ storage[STORAGE_KEYS.holdings] = Some(JsonStringify(holdings))
    /\ storage[STORAGE_KEYS.transactions] = Some(JsonStringify(transactions))
    /\ storage[STORAGE_KEYS.cashBalance] = Some(NumberToString(cashBalance))
    /\ cashBalance = 100000 - 10 * 150 + 5 * 200


-----------------------------------------------------------------------------
(* Properties of the request queue.                                         *)

\* The place of task id in the order of the starts (0: not started).
StartPlace(id) ==
    IF \E i \in 1..Len(starts) : starts[i].task = id
    THEN CHOOSE i \in 1..Len(starts) : starts[i].task = id
    ELSE 0

(* C11: the queue starts the request functions in the order of the add()   *)
(* calls: whenever a task has been started, every task added before it was *)
(* started earlier, and no task is started twice, in every interleaving of *)
(* add() with the draining loop.                                           *)
C11_FifoDispatch ==
    /\ \A j \in 1..Len(starts) : \A a \in 1..(starts[j].task - 1) :
            StartPlace(a) # 0 /\ StartPlace(a) < j
    /\ \A i, j \in 1..Len(starts) : starts[i].task = starts[j].task => i = j

\* Three tasks were started, the last two after waiting in the queue together.
C11_Witness ==
    /\ Len(starts) = 3
    /\ Len(tasks) = 3
    /\ starts[2].at < starts[3].at
    /\ tasks[3].phase = "calling"

Rejects(id) == tasks[id].phase # "rejected" /\ tasks'[id].phase = "rejected"

(* C13: when a queued task rejects, only the promise of its own add() is   *)
(* rejected: the tasks behind it and the queue are untouched, the loop     *)
(* goes on, and every task queued behind it is dispatched and settled      *)
(* later on.                                                               *)
C13_RejectionStep ==
    \A id \in 1..Len(tasks) :
        Rejects(id) =>
            /\ \A k \in 1..Len(tasks) : k # id => tasks'[k] = tasks[k]
            /\ queue' = queue
            /\ isProcessing'
            /\ drain'.pc = "resume"

C13_FailureIsolation ==
    /\ [][C13_RejectionStep]_vars
    /\ \A i \in 1..MaxTasks : \A j \in (i + 1)..MaxTasks :
           (Len(tasks) >= j /\ tasks[i].phase = "rejected")
               ~> (StartPlace(j) # 0 /\ Settled(tasks[j]))

\* A task was rejected and the task added after it was run and resolved.
C13_Witness ==
    /\ Len(tasks) >= 2
    /\ tasks[1].phase = "rejected"
    /\ tasks[2].phase = "resolved"

\* The upstream calls that have not ended.
CallsInFlight(ts) ==
    LET Sum[i \in 0..Len(ts)] == IF i = 0 THEN 0 ELSE Sum[i - 1] + ts[i].calls
    IN  Sum[Len(ts)]

TasksRunning == {id \in 1..Len(tasks) : Running(tasks[id])}

\* A task is dispatched in this step.
QueueDispatches == Len(starts') = Len(starts) + 1

(* C14, as stated: the queue never dispatches a task before the previously *)
(* dispatched task has settled, and at most one upstream call is in flight *)
(* at any time.                                                            *)
C14_OneCallInFlight ==
    /\ [](CallsInFlight(tasks) <= 1)
    /\ [][QueueDispatches => \A id \in 1..Len(tasks) : Started(tasks[id]) => Settled(tasks[id])]_vars

(* C14, amended: the queue never dispatches a task before the previously   *)
(* dispatched task has settled, so at most one queued task runs at a time, *)
(* and every upstream call in flight belongs to that task; the task itself *)
(* may have several calls in flight (three for getMarketIndices).          *)
C14_OneTaskInFlight ==
    /\ [](/\ Cardinality(TasksRunning) <= 1
          /\ \A id \in 1..Len(tasks) :
                tasks[id].calls > 0 => drain.pc = "request" /\ drain.task = id
          /\ CallsInFlight(tasks) <= 3)
    /\ [][QueueDispatches => \A id \in 1..Len(tasks) : Started(tasks[id]) => Settled(tasks[id])]_vars

\* Three upstream calls in flight at once while another task waits its turn.
C14_Witness ==
    /\ CallsInFlight(tasks) = 3
    /\ Len(queue) > 0

-----------------------------------------------------------------------------
(* Properties of the retry policy.                                          *)

\* HTTP 429 or a 5xx status.
RateLimitOrServerError(code) == code = 429 \/ (code >= 500 /\ code <= 599)

\* The run ends in this step, rejecting with error e, without another call of
\* fn and without a delay.
FailsFastWith(e) ==
    /\ retry'.pc = "done"
    /\ retry'.outcome = Some([ok |-> FALSE, error |-> Some(e)])
    /\ retry'.calls = retry.calls
    /\ retry'.waits = retry.waits

(* C15: when an attempt fails with anything other than HTTP 429 or a 5xx   *)
(* status, the run ends at once with that error: fn is not invoked again   *)
(* and no backoff delay is waited, whatever budget remains; and a run that *)
(* has ended invokes fn no more.                                           *)
C15_FailStep ==
    \A code \in RetryStatuses :
        (FnRejects(code) /\ ~RateLimitOrServerError(code))
            => FailsFastWith(Raised(retry.attempt, code))

C15_FailFast ==
    /\ [][C15_FailStep]_vars
    /\ [][retry.pc = "done" => retry' = retry]_vars

\* A first attempt failed with 404 with two attempts of the budget left.
C15_Witness ==
    /\ retry.pc = "done"
    /\ retry.retries = 3
    /\ retry.calls = <<0>>
    /\ retry.waits = <<>>
    /\ retry.outcome = Some([ok |-> FALSE, error |-> Some(Raised(0, 404))])

\* Every attempt of the run so far failed with HTTP 429 or a 5xx status.
AllRetryable(r) ==
    /\ Len(r.raised) = Len(r.calls)
    /\ \A i \in 1..Len(r.raised) : RateLimitOrServerError(r.raised[i].status)

(* C16: when fn fails with a retryable error on every attempt, the run     *)
(* invokes fn retries times in all (attempts 0 .. retries - 1), then ends  *)
(* and rejects with the very error the last attempt raised; and every run  *)
(* ends.                                                                    *)
C16_Exhausted ==
    (retry.pc = "done" /\ retry.calls # <<>> /\ AllRetryable(retry))
        => /\ retry.calls = [i \in 1..retry.retries |-> i - 1]
           /\ retry.outcome =
                  Some([ok |-> FALSE, error |-> Some(retry.raised[Len(retry.raised)])])
           /\ retry.raised[Len(retry.raised)].raisedAt = retry.retries - 1

C16_LastErrorPropagates ==
    /\ []C16_Exhausted
    /\ (retry.pc \in {"calling", "waiting"}) ~> (retry.pc = "done")

\* A budget of three used up: 500, then 429, then 503, which is the error
\* the run rejects with.
C16_Witness ==
    /\ retry.pc = "done"
    /\ retry.retries = 3
    /\ retry.raised = <<Raised(0, 500), Raised(1, 429), Raised(2, 503)>>
    /\ retry.outcome = Some([ok |-> FALSE, error |-> Some(Raised(2, 503))])

(* C17: the delay waited before attempt k (zero-indexed) equals            *)
(* RETRY_BASE_DELAY x 2^k.                                                 *)
C17_BackoffGrowth ==
    \A i \in 1..Len(retry.waits) :
        retry.waits[i].delay = RETRY_BASE_DELAY * Pow2(retry.waits[i].before)

(* C18, as stated: an attempt that fails without an HTTP response (the     *)
(* request timed out) while attempts remain is followed by the backoff     *)
(* delay and another attempt.                                              *)
C18_TimeoutIsRetried ==
    [][(FnRejects(NoResponse) /\ retry.attempt < retry.retries - 1)
          => (retry'.pc = "waiting" /\ Len(retry'.waits) = Len(retry.waits) + 1)]_vars

(* C18, amended: an attempt that fails without an HTTP response (the       *)
(* request timed out) is not retried: the run ends at once with that       *)
(* error, without a backoff delay and without another attempt, also while  *)
(* attempts remain.                                                        *)
C18_TimeoutFailsFast ==
    [][FnRejects(NoResponse) => FailsFastWith(Raised(retry.attempt, NoResponse))]_vars

\* The second attempt of three timed out and ended the run.
C18_Witness ==
    /\ retry.pc = "done"
    /\ retry.retries = 3
    /\ retry.raised = <<Raised(0, 500), Raised(1, NoResponse)>>
    /\ retry.calls = <<0, 1>>
    /\ retry.outcome = Some([ok |-> FALSE, error |-> Some(Raised(1, NoResponse))])

-----------------------------------------------------------------------------
(* Properties of the cache.                                                 *)

(* C19: for every key, get(key) returns the value of the most recent       *)
(* set(key, v) if and only if now - writtenAt <= CACHE_TTL and the key was *)
(* not invalidated or cleared since; otherwise it returns absent, and a    *)
(* get on an expired entry removes the entry from the store.  A get        *)
(* changes no other entry.                                                 *)
C19_GetStep ==
    \A key \in CacheKeys :
        CacheGet(key) =>
            LET live == written[key] # None
                        /\ now - written[key][1].timestamp <= CACHE_TTL
            IN  /\ lastGet'[1].result =
                       IF live THEN Some(written[key][1].data) ELSE None
                /\ ~live => cache'[key] = None
                /\ live => cache'[key] = written[key]
                /\ \A k \in CacheKeys \ {key} : cache'[k] = cache[k]

C19_CacheTtl == [][C19_GetStep]_vars

\* A get found the AAPL entry a millisecond older than the TTL, returned
\* absent and removed it, while the MSFT entry, exactly CACHE_TTL old, is
\* still stored.
C19_Witness ==
    /\ lastGet # None
    /\ lastGet[1].key = "price:AAPL"
    /\ lastGet[1].result = None
    /\ written["price:AAPL"] # None
    /\ cache["price:AAPL"] = None
    /\ lastGet[1].at - written["price:AAPL"][1].timestamp = CACHE_TTL + 1
    /\ written["price:MSFT"] # None
    /\ cache["price:MSFT"] = written["price:MSFT"]
    /\ now - written["price:MSFT"][1].timestamp = CACHE_TTL

-----------------------------------------------------------------------------
(* Properties of the synthetic chart data.                                  *)

\* Date text a is not later than date text b (texts of the same form).
RECURSIVE DateLeq(_, _)
DateLeq(a, b) ==
    IF a = <<>> \/ b = <<>> THEN a = <<>>
    ELSE IF a[1] = b[1] THEN DateLeq(Tail(a), Tail(b))
    ELSE a[1] # "-" /\ b[1] # "-" /\ DigitValue(a[1]) < DigitValue(b[1])

\* The synthetic point count of the table for each range.
SyntheticPointCount ==
    [r \in TimeRanges |->
        IF r = "1D" THEN 78 ELSE IF r = "1W" THEN 35 ELSE IF r = "1M" THEN 22
        ELSE IF r = "3M" THEN 65 ELSE IF r = "6M" THEN 130
        ELSE IF r = "1Y" THEN 52 ELSE 60]

(* C20: for every range, when upstream reports no_data getHistoricalData   *)
(* returns exactly the table's synthetic point count for the range, with   *)
(* dates in chronologically ascending order and the last point dated       *)
(* today: the calendar date of the moment of the call as the program       *)
(* prints dates (toISOString, the UTC date).                               *)
C20_SyntheticSeries ==
    (chart # None /\ chart[1].data.s = "no_data")
        => /\ chart[1].points # None
           /\ LET points == chart[1].points[1] IN
                /\ Len(points) = SyntheticPointCount[chart[1].timeRange]
                /\ \A k \in 1..(Len(points) - 1) :
                       DateLeq(points[k].date, points[k + 1].date)
                /\ points[Len(points)].date = IsoDate(chart[1].clock)
                /\ points[1].date # points[Len(points)].date

\* The 130 points of range 6M asked for in Berlin on 2024-04-01, the series
\* running back across the leap day and the start of daylight-saving time.
C20_Witness ==
    /\ chart # None
    /\ chart[1].data.s = "no_data"
    /\ chart[1].timeRange = "6M"
    /\ chart[1].zone.name = "Europe/Berlin"
    /\ chart[1].points # None
    /\ Len(chart[1].points[1]) = 130
    /\ chart[1].points[1][130].date = <<"2", "0", "2", "4", "-", "0", "4", "-", "0", "1">>
    /\ chart[1].points[1][1].date = <<"2", "0", "2", "3", "-", "1", "1", "-", "2", "4">>

-----------------------------------------------------------------------------
(* When the chart falls back to synthetic data.                             *)

\* The chart request has returned the synthetic series of its range.
ReturnedSynthetic ==
    /\ chart # None
    /\ chart[1].points =
           Some(GenerateMockHistoricalData(chart[1].timeRange, chart[1].clock,
                                           chart[1].zone))

(* C21 as stated: getHistoricalData returns the synthetic series only when *)
(* the candle response carries the explicit no-data status; after an       *)
(* upstream error, or a response without that status, no synthetic series  *)
(* is returned.                                                            *)
C21_SyntheticOnlyOnNoData ==
    ReturnedSynthetic => (~chart[1].data.failed /\ chart[1].data.s = "no_data")

(* C21, amended: getHistoricalData returns the synthetic series exactly    *)
(* when the candle response carries the no-data status or carries no array *)
(* of closing prices; after an upstream error nothing is returned, and a   *)
(* response with closing prices and without the no-data status yields its  *)
(* own candles.                                                            *)
C21_SyntheticWithoutCandles ==
    chart # None =>
        /\ ReturnedSynthetic
               <=> (~chart[1].data.failed /\ chart[1].data.s \in {"no_data", "none"})
        /\ chart[1].data.failed => chart[1].points = None
        /\ (~chart[1].data.failed /\ chart[1].data.s = "ok")
               => chart[1].points = Some(CandlePoints(chart[1].data))

\* A body that carries neither the no-data status nor closing prices was
\* answered with the 22 synthetic points of range 1M.
C21_Witness ==
    /\ ReturnedSynthetic
    /\ chart[1].data.s = "none"
    /\ chart[1].timeRange = "1M"
    /\ Len(chart[1].points[1]) = 22

-----------------------------------------------------------------------------
(* The market overview operations: getMarketIndices and, through            *)
(* getStocksWithMockChanges, getTopGainers and getTopLosers.  Each fetches  *)
(* the quote of every symbol of its list and builds one entry per quote it  *)
(* accepts.  Math.random() is a sequence of draws consumed in call order;   *)
(* a draw d stands for the value d / 5.  The change and changePercent of an *)
(* index and the day range of a mover, which no later step reads, are left  *)
(* out of the entries; the field mock tells which branch built an entry.    *)

MarketOps == {"getMarketIndices", "getTopGainers", "getTopLosers"}

\* const indices = [...] (369-373) and const stocks = [...] (424-430, 442-448)
Curated(op) ==
    IF op = "getMarketIndices" THEN <<"SPY", "QQQ", "DIA">>
    ELSE IF op = "getTopGainers" THEN <<"AAPL", "MSFT", "GOOGL", "AMZN", "NVDA">>
    ELSE <<"META", "TSLA", "NFLX", "AMD", "INTC">>

\* What upstream answers GET /quote with: an error, or a body whose current
\* price c is 0 (a symbol upstream has no price for) or positive.
QuoteAnswers ==
    { [failed |-> TRUE, c |-> 0], [failed |-> FALSE, c |-> 0],
      [failed |-> FALSE, c |-> 150] }

\* The values of Math.random(), in fifths.
Draws == {1, 3}

\* try { const response = await apiClient.get('/quote', ...);
\*       return { stock, data: response.data } } catch { return { stock, data: null } }
FetchQuote(symbol, answer) ==
    [symbol |-> symbol, data |-> IF answer.failed THEN None ELSE Some(answer.c),
     thrown |-> FALSE]

\* stocks.map(async (stock) => ...): one fetch per symbol of the list
FetchAll(list, answers) == [k \in 1..Len(list) |-> FetchQuote(list[k], answers[k])]

\* await Promise.all(promises): rejected as soon as one promise rejects
PromiseAll(fetched) ==
    IF \E k \in 1..Len(fetched) : fetched[k].thrown THEN "rejected" ELSE "resolved"

\* data && data.c > 0
HasPrice(data) == data # None /\ data[1] > 0

\* The loop of getMarketIndices over quoteResults (390-409): the entry of a
\* quote with a price, and a mock entry at 450 + Math.random() * 50 otherwise.
RECURSIVE IndexEntries(_, _)
IndexEntries(fetched, draws) ==
    IF fetched = <<>> THEN <<>>
    ELSE IF HasPrice(Head(fetched).data)
         THEN <<[symbol |-> Head(fetched).symbol, price |-> Head(fetched).data[1],
                 mock |-> FALSE]>>
              \o IndexEntries(Tail(fetched), draws)
         ELSE <<[symbol |-> Head(fetched).symbol, price |-> 450 + 10 * Head(draws),
                 mock |-> TRUE]>>
              \o IndexEntries(Tail(fetched), Tail(draws))

\* positive ? Math.random() * 5 + 1 : -(Math.random() * 5 + 1)
ChangePercent(positive, draw) == IF positive THEN draw + 1 ELSE -(draw + 1)

\* The first loop of getStocksWithMockChanges (476-498): an entry for each
\* quote with a price, none for the others.
RECURSIVE PricedEntries(_, _, _)
PricedEntries(fetched, positive, draws) ==
    IF fetched = <<>> THEN <<>>
    ELSE IF HasPrice(Head(fetched).data)
         THEN <<[symbol |-> Head(fetched).symbol, price |-> Head(fetched).data[1],
                 changePercent |-> ChangePercent(positive, Head(draws)),
                 mock |-> FALSE]>>
              \o PricedEntries(Tail(fetched), positive, Tail(draws))
         ELSE PricedEntries(Tail(fetched), positive, draws)

\* The second loop (502-521): a mock entry at 100 + Math.random() * 200 for
\* every stock of the list.
MockEntries(stocks, positive, draws) ==
    [k \in 1..Len(stocks) |->
        [symbol |-> stocks[k], price |-> 100 + 40 * draws[2 * k - 1],
         changePercent |-> ChangePercent(positive, draws[2 * k]), mock |-> TRUE]]

\* Mutant of NeedsMockData: never any mock entries.
NeedsMockDataNever(results, stocks) == FALSE

\* if (results.length === 0)
NeedsMockData(results, stocks) == Len(results) = 0

\* positive ? b.changePercent - a.changePercent : a.changePercent - b.changePercent
\* is positive: a goes after b.
After(a, b, positive) ==
    IF positive THEN b.changePercent - a.changePercent > 0
    ELSE a.changePercent - b.changePercent > 0

\* results.sort(...): a stable sort, entry by entry.
RECURSIVE Insert(_, _, _)
Insert(sorted, e, positive) ==
    IF sorted = <<>> THEN <<e>>
    ELSE IF After(Head(sorted), e, positive)
         THEN <<e>> \o sorted
         ELSE <<Head(sorted)>> \o Insert(Tail(sorted), e, positive)

RECURSIVE SortByChange(_, _)
SortByChange(results, positive) ==
    IF results = <<>> THEN <<>>
    ELSE Insert(SortByChange(SubSeq(results, 1, Len(results) - 1), positive),
                results[Len(results)], positive)

\* The entries getStocksWithMockChanges(stocks, positive) returns.
StocksWithMockChanges(stocks, positive, fetched, draws) ==
    LET results == PricedEntries(fetched, positive, draws) IN
    SortByChange(IF NeedsMockData(results, stocks)
                 THEN MockEntries(stocks, positive, draws)
                 ELSE results,
                 positive)

\* How many times the operation calls Math.random().
DrawsNeeded(op, fetched) ==
    LET priced == Len(SelectSeq(fetched, LAMBDA f : HasPrice(f.data))) IN
    IF op = "getMarketIndices" THEN Len(fetched) - priced
    ELSE IF priced = 0 THEN 2 * Len(fetched) ELSE priced

\* The request function of the operation, with upstream answering the quote
\* of the k-th symbol with answers[k]: how its promise settles, and with what.
MarketRequestOf(op, answers, draws) ==
    LET fetched == FetchAll(Curated(op), answers) IN
    [op |-> op, answers |-> answers, settled |-> PromiseAll(fetched),
     result |-> IF PromiseAll(fetched) = "rejected" THEN <<>>
                ELSE IF op = "getMarketIndices" THEN IndexEntries(fetched, draws)
                ELSE StocksWithMockChanges(Curated(op), op = "getTopGainers",
                                           fetched, draws)]

\* One market overview request in a behaviour: what a request returns does
\* not depend on the requests before it.
MarketRequest ==
    /\ market = None
    /\ \E op \in MarketOps :
         \E answers \in [1..Len(Curated(op)) -> QuoteAnswers] :
           \E draws \in [1..DrawsNeeded(op, FetchAll(Curated(op), answers)) -> Draws] :
               market' = Some(MarketRequestOf(op, answers, draws))
    /\ UNCHANGED <<portfolio, api, batch, watch>>

MarketSpec == Init /\ [][MarketRequest]_vars

-----------------------------------------------------------------------------
(* Properties of the market overview operations.                            *)

\* The entries of the result for a symbol.
EntriesFor(result, symbol) == SelectSeq(result, LAMBDA e : e.symbol = symbol)

\* The fetch of a quote brought a price.
Fetched(answer) == ~answer.failed /\ answer.c > 0

\* The result has exactly one entry for the symbol, built from the price
\* that was fetched for it.
OneRealEntry(result, symbol, answer) ==
    /\ Len(EntriesFor(result, symbol)) = 1
    /\ ~EntriesFor(result, symbol)[1].mock
    /\ EntriesFor(result, symbol)[1].price = answer.c

\* The result has exactly one entry for the symbol, a synthetic one.
OneMockEntry(result, symbol) ==
    /\ Len(EntriesFor(result, symbol)) = 1
    /\ EntriesFor(result, symbol)[1].mock

(* C22 as stated: whichever per-symbol fetches fail, getMarketIndices,     *)
(* getTopGainers and getTopLosers resolve with exactly one entry for every *)
(* symbol of their list, synthetic for a symbol whose fetch failed and     *)
(* built from the fetched price for the others.                            *)
C22_OneEntryPerSymbol ==
    market # None =>
        /\ market[1].settled = "resolved"
        /\ Len(market[1].result) = Len(Curated(market[1].op))
        /\ \A k \in 1..Len(Curated(market[1].op)) :
               IF market[1].answers[k].failed
               THEN OneMockEntry(market[1].result, Curated(market[1].op)[k])
               ELSE OneRealEntry(market[1].result, Curated(market[1].op)[k],
                                 market[1].answers[k])

(* C22, amended: whichever per-symbol fetches fail (the call fails, or its *)
(* answer has no positive price), the three operations resolve.            *)
(* getMarketIndices has exactly one entry for every symbol of its list,    *)
(* synthetic for a failed symbol and built from the fetched price for the  *)
(* others.  getTopGainers and getTopLosers have exactly one entry, built   *)
(* from the fetched price, for every symbol whose fetch succeeded and no   *)
(* entry for a failed symbol, unless every fetch failed: then they have    *)
(* exactly one synthetic entry for every symbol of the list.               *)
C22_EntriesOfTheFetched ==
    market # None =>
        LET op == market[1].op
            list == Curated(market[1].op)
            answers == market[1].answers
            result == market[1].result
            fetched == {k \in 1..Len(list) : Fetched(answers[k])}
        IN  /\ market[1].settled = "resolved"
            /\ \A k \in 1..Len(list) :
                   IF k \in fetched THEN OneRealEntry(result, list[k], answers[k])
                   ELSE IF op = "getMarketIndices" \/ fetched = {}
                        THEN OneMockEntry(result, list[k])
                        ELSE EntriesFor(result, list[k]) = <<>>
            /\ Len(result) = IF op = "getMarketIndices" \/ fetched = {}
                             THEN Len(list) ELSE Cardinality(fetched)

\* getTopGainers with the quote of AAPL failing and the four others
\* fetched: four entries, none for AAPL.
C22_Witness ==
    /\ market # None
    /\ market[1].op = "getTopGainers"
    /\ market[1].answers[1].failed
    /\ \A k \in 2..5 : Fetched(market[1].answers[k])
    /\ Len(market[1].result) = 4
    /\ EntriesFor(market[1].result, "AAPL") = <<>>

-----------------------------------------------------------------------------
(* getMultiplePrices(symbols) on top of the cache and the request queue: a  *)
(* loop that awaits getPrice(symbol) for one symbol after the other.  Each  *)
(* getPrice goes through cachedRequest: a price found in the cache is       *)
(* returned without a request, any other is a task of its own in the queue, *)
(* run under retryWithBackoff.  batch.got lists, per symbol handled, the    *)
(* task that fetched the price (0 when it came from the cache) and the      *)
(* price getPrice returned.  Beside the batch, one market overview request  *)
(* may be queued.                                                           *)

\* BatchSpec: getMultiplePrices is called with at most this many symbols.
MaxBatch == 2

BatchSymbols == {"AAPL", "aapl", "MSFT"}

BatchLists == UNION {[1..n -> BatchSymbols] : n \in 1..MaxBatch}

\* symbol.toUpperCase()
ToUpperCase(symbol) == IF symbol = "aapl" THEN "AAPL" ELSE symbol

\* const cacheKey = `price:${upperSymbol}`
PriceKey(symbol) ==
    IF ToUpperCase(symbol) = "AAPL" THEN "price:AAPL" ELSE "price:MSFT"

\* prices[symbol.toUpperCase()] = price, and on to the next symbol of the
\* loop, or return prices after the last.
Recorded(b, task, price) ==
    [b EXCEPT !.prices = SetPrice(@, ToUpperCase(b.symbols[b.k]), price),
              !.got = Append(@, [task |-> task, price |-> price]),
              !.k = @ + 1,
              !.task = 0,
              !.pc = IF b.k = Len(b.symbols) THEN "done" ELSE "next"]

\* Mutant of PriceOnFailure: the error of getPrice is not caught.
PriceOnFailureRethrown(b) == [b EXCEPT !.pc = "rejected"]

\* catch (error) { prices[symbol.toUpperCase()] = 0 }
PriceOnFailure(b) == Recorded(b, b.task, 0)

\* The queue and the batch aside, what a batch step leaves alone.
besideBatch == <<now, portfolio, retry, chart, market, watch>>

\* stockApi.getMultiplePrices(symbols) is called: const prices = {}
GetMultiplePrices(symbols) ==
    /\ batch.pc = "idle"
    /\ batch' = [BatchIdle EXCEPT !.pc = "next", !.symbols = symbols, !.k = 1]
    /\ UNCHANGED <<api, portfolio, market, watch>>

\* await this.getPrice(symbol) for the next symbol: cachedRequest returns the
\* cached price, or hands the request to the queue and awaits it.
GetPrice ==
    /\ batch.pc = "next"
    /\ LET key == PriceKey(batch.symbols[batch.k])
           cached == GetResult(cache, key, now)
       IN  /\ lastGet' = Some([key |-> key, result |-> cached, at |-> now])
           /\ cache' = GetStore(cache, key, now)
           /\ IF cached # None
              THEN /\ batch' = Recorded(batch, 0, cached[1])
                   /\ UNCHANGED <<queue, isProcessing, lastRequestTime, drain,
                                  tasks, starts>>
              ELSE /\ Enqueue("price")
                   /\ batch' = [batch EXCEPT !.pc = "awaiting",
                                             !.task = Len(tasks) + 1]
    /\ UNCHANGED <<written, besideBatch>>

\* The promise of the awaited getPrice settles: the fetched price
\* (response.data.c || 0) is cached and recorded, or the error is caught.
PriceSettles ==
    /\ batch.pc = "awaiting"
    /\ Settled(tasks[batch.task])
    /\ IF tasks[batch.task].phase = "resolved"
       THEN \E data \in CacheData :
              LET key == PriceKey(batch.symbols[batch.k]) IN
              /\ cache' = [cache EXCEPT ![key] = Some(CacheEntry(data, now))]
              /\ written' = [written EXCEPT ![key] = Some(CacheEntry(data, now))]
              /\ batch' = Recorded(batch, batch.task, data)
       ELSE /\ batch' = PriceOnFailure(batch)
            /\ UNCHANGED <<cache, written>>
    /\ UNCHANGED <<queue, isProcessing, lastRequestTime, drain, tasks, starts,
                   lastGet, besideBatch>>

\* Time passes, one pacing delay at a time: freely for as long as in
\* QueueSpec, and for as long as a timer is pending.
BatchTick ==
    /\ now + RATE_LIMIT_DELAY <= PageLoadTime + MaxQueueTicks * 100 \/ TimerPending
    /\ now' = now + RATE_LIMIT_DELAY
    /\ UNCHANGED <<queue, isProcessing, lastRequestTime, drain, tasks, starts,
                   portfolio, besideQueue>>

\* A market overview request function is in the queue or has been.
OverviewQueued == \E id \in 1..Len(tasks) : tasks[id].kind \in {"indices", "movers"}

BatchNext ==
    \/ \E symbols \in BatchLists : GetMultiplePrices(symbols)
    \/ GetPrice
    \/ PriceSettles
    \/ ~OverviewQueued /\ \E kind \in {"indices", "movers"} : Add(kind)
    \/ TimerFires
    \/ QResponse
    \/ QBackoff
    \/ LoopResumes
    \/ BatchTick

BatchSpec == Init /\ [][BatchNext]_vars

-----------------------------------------------------------------------------
(* Properties of getMultiplePrices.                                         *)

\* The last place of the list at which the symbol of place k, in uppercase,
\* is asked for: the write of that place is the one the result keeps.
LastPlace(symbols, k) ==
    CHOOSE j \in k..Len(symbols) :
        /\ ToUpperCase(symbols[j]) = ToUpperCase(symbols[k])
        /\ \A i \in (j + 1)..Len(symbols) :
               ToUpperCase(symbols[i]) # ToUpperCase(symbols[k])

\* The price fetch of place k of the batch failed.
FetchFailed(k) ==
    /\ batch.got[k].task # 0
    /\ tasks[batch.got[k].task].phase = "rejected"

(* C23: getMultiplePrices(symbols) never rejects: whichever price fetches  *)
(* fail, the result has an entry for the uppercase form of every input     *)
(* symbol and for nothing else, a symbol whose fetch failed maps to 0, and *)
(* every other symbol maps to the price getPrice returned for it (for a    *)
(* symbol listed twice, what its last place brought).                      *)
C23_MultiplePrices ==
    /\ batch.pc # "rejected"
    /\ batch.pc = "done" =>
           /\ Len(batch.got) = Len(batch.symbols)
           /\ DOMAIN batch.prices =
                  {ToUpperCase(batch.symbols[k]) : k \in 1..Len(batch.symbols)}
           /\ \A k \in 1..Len(batch.symbols) :
                  LET j == LastPlace(batch.symbols, k) IN
                  batch.prices[ToUpperCase(batch.symbols[k])] =
                      IF FetchFailed(j) THEN 0 ELSE batch.got[j].price

\* getMultiplePrices(['aapl', 'MSFT']) has returned { AAPL: 0, MSFT: 150 }:
\* the fetch for aapl failed and the one for MSFT brought 150.
C23_Witness ==
    /\ batch.pc = "done"
    /\ batch.symbols = <<"aapl", "MSFT">>
    /\ FetchFailed(1)
    /\ ~FetchFailed(2)
    /\ batch.prices = [s \in {"AAPL", "MSFT"} |-> IF s = "AAPL" THEN 0 ELSE 150]

-----------------------------------------------------------------------------
(* How the batch operations use the queue.                                  *)

\* The curated list behind a market overview request function.
OverviewList(kind) ==
    Curated(IF kind = "indices" THEN "getMarketIndices" ELSE "getTopGainers")

\* The request function of task id is started by this step.
StartsNow(id) ==
    /\ tasks'[id].phase # "queued"
    /\ id > Len(tasks) \/ tasks[id].phase = "queued"

\* A market overview request is one task of the queue, and the step that
\* starts it issues the calls for all symbols of its list together.
OverviewFetchesTogether ==
    \A id \in 1..Len(tasks') :
        (tasks'[id].kind \in {"indices", "movers"} /\ StartsNow(id))
            => /\ tasks'[id].phase = "calling"
               /\ tasks'[id].calls = Len(OverviewList(tasks'[id].kind))

\* The tasks that fetched prices for the batch so far.
BatchTasks == {batch.got[k].task : k \in 1..Len(batch.got)} \ {0}

(* C24 as stated: the per-symbol fetches of getMarketIndices, of           *)
(* getTopGainers / getTopLosers and of getMultiplePrices are issued        *)
(* together and directly to upstream: no fetch of a batch waits for        *)
(* another fetch of the batch, and none is a task of its own in the        *)
(* request queue.                                                          *)
C24_FanOutBypassesQueue ==
    [][/\ OverviewFetchesTogether
       /\ batch'.task = 0
       /\ BatchTasks = {}]_vars

\* The price fetches of getMultiplePrices go through the queue one by one:
\* a fetch is a task of kind "price" of its own, and it is handed to the
\* queue only when the fetches of all earlier symbols have settled.
BatchFetchesInTurn ==
    /\ batch'.pc # "idle" => Len(batch'.got) = batch'.k - 1
    /\ \A id \in BatchTasks' :
           tasks'[id].kind = "price" /\ Settled(tasks'[id])
    /\ batch'.pc = "awaiting" =>
           /\ tasks'[batch'.task].kind = "price"
           /\ \A id \in BatchTasks' : id < batch'.task
    /\ Cardinality(BatchTasks') =
           Cardinality({k \in 1..Len(batch'.got) : batch'.got[k].task # 0})

(* C24, amended: the per-symbol fetches of getMarketIndices and of         *)
(* getTopGainers / getTopLosers are issued together and directly to        *)
(* upstream inside the one queued request of the operation: no fetch waits *)
(* for another fetch of the batch and none is a task of its own.           *)
(* getMultiplePrices fetches its symbols one after the other through       *)
(* getPrice: every fetch that the cache does not answer is a queue task of *)
(* its own, queued only after the fetch of the symbol before has settled.  *)
C24_OverviewBypassesQueue ==
    [][OverviewFetchesTogether /\ BatchFetchesInTurn]_vars

\* getMarketIndices has its three calls in flight while getMultiplePrices,
\* whose first fetch has settled, waits in the queue with its second.
C24_Witness ==
    /\ \E id \in 1..Len(tasks) :
           /\ tasks[id].kind = "indices"
           /\ tasks[id].phase = "calling"
           /\ tasks[id].calls = 3
    /\ batch.pc = "awaiting"
    /\ Len(batch.got) = 1
    /\ batch.got[1].task # 0
    /\ tasks[batch.task].phase = "queued"

-----------------------------------------------------------------------------
(* The watchlist store (the watchlist slice): addToWatchlist,               *)
(* removeFromWatchlist, clearWatchlist and the fetchWatchlistQuotes thunk   *)
(* with its pending and fulfilled / rejected reducers.  A refresh in flight *)
(* holds the symbols it read from getState() when it was dispatched.        *)
(* updateQuote, which the application never dispatches, is not modelled,    *)
(* and the addedAt time of an item, which nothing reads, is left out.       *)
(* watchOp records the last action reduced and what it did.                 *)

\* WatchSpec: at most this many refreshes await their quotes at once.
MaxRefreshes == 2

\* The names an item is added under: the company name, or the symbol itself.
WatchNames(symbol) == {DisplayName(symbol), symbol}

\* The outcome of stockApi.getQuote(symbol): a quote (its price 0 when
\* upstream has none), or a thrown error.
QuoteOutcomes(symbol) ==
    {[ok |-> FALSE, quote |-> None]}
        \cup {[ok |-> TRUE, quote |-> Some([symbol |-> symbol, price |-> p])] :
                 p \in {0, 150}}

\* saveWatchlistToStorage(items)
SaveWatchlistToStorage(list) == Some(JsonStringify(list))

\* Mutant of Exists: the list is never searched.
ExistsNever(list, symbol) == FALSE

\* state.items.some((item) => item.symbol === symbol)
Exists(list, symbol) == \E k \in 1..Len(list) : list[k].symbol = symbol

\* state.items.filter((item) => item.symbol !== action.payload)
WithoutSymbol(list, symbol) == SelectSeq(list, LAMBDA item : item.symbol # symbol)

\* Mutant of QuoteOrNull: the error of getQuote is not caught.
QuoteOrThrow(symbol, outcome) ==
    [symbol |-> symbol, quote |-> outcome.quote, thrown |-> ~outcome.ok]

\* try { const quote = await stockApi.getQuote(symbol); return { symbol, quote } }
\* catch { return { symbol, quote: null } }
QuoteOrNull(symbol, outcome) ==
    [symbol |-> symbol, quote |-> outcome.quote, thrown |-> FALSE]

\* results.forEach(({ symbol, quote }) => { if (quote) quotes[symbol] = quote })
RECURSIVE QuotesOf(_)
QuotesOf(results) ==
    IF results = <<>> THEN NoPrices
    ELSE LET r == results[Len(results)]
             before == QuotesOf(SubSeq(results, 1, Len(results) - 1))
         IN  IF r.quote # None THEN SetPrice(before, r.symbol, r.quote[1])
             ELSE before

\* The payload creator of fetchWatchlistQuotes for a refresh that read the
\* symbols, with getQuote ending as outcomes says for each of them.
QuotesThunk(symbols, outcomes) ==
    IF Len(symbols) = 0 THEN [ok |-> TRUE, quotes |-> NoPrices]
    ELSE LET results == [k \in 1..Len(symbols) |-> QuoteOrNull(symbols[k], outcomes[k])]
         IN  IF \E k \in 1..Len(results) : results[k].thrown
             THEN Rejection("Failed to fetch watchlist quotes")
             ELSE [ok |-> TRUE, quotes |-> QuotesOf(results)]

\* What the watchlist actions leave alone.
besideWatch == <<portfolio, api, market, batch>>

\* addToWatchlist({ symbol, name })
AddToWatchlist(symbol, name) ==
    /\ IF ~Exists(items, symbol)
       THEN /\ items' = Append(items, [symbol |-> symbol, name |-> name])
            /\ watchStorage' = SaveWatchlistToStorage(items')
       ELSE UNCHANGED <<items, watchStorage>>
    /\ watchOp' = Some([type |-> "addToWatchlist", symbol |-> symbol,
                        existed |-> Exists(items, symbol)])
    /\ UNCHANGED <<quotes, watchStatus, watchError, refreshes, besideWatch>>

\* removeFromWatchlist(symbol)
RemoveFromWatchlist(symbol) ==
    /\ items' = WithoutSymbol(items, symbol)
    /\ quotes' = DeletePrice(quotes, symbol)
    /\ watchStorage' = SaveWatchlistToStorage(items')
    /\ watchOp' = Some([type |-> "removeFromWatchlist", symbol |-> symbol,
                        existed |-> Exists(items, symbol)])
    /\ UNCHANGED <<watchStatus, watchError, refreshes, besideWatch>>

\* clearWatchlist()
ClearWatchlist ==
    /\ items' = <<>>
    /\ quotes' = NoPrices
    /\ watchStorage' = SaveWatchlistToStorage(<<>>)
    /\ watchOp' = Some([type |-> "clearWatchlist", symbol |-> Null,
                        existed |-> items # <<>>])
    /\ UNCHANGED <<watchStatus, watchError, refreshes, besideWatch>>

\* dispatch(fetchWatchlistQuotes()): the pending reducer, and the thunk up to
\* its await with const { items } = getState().watchlist.
FetchWatchlistQuotesPending ==
    /\ watchStatus' = "loading"
    /\ watchError' = Null
    /\ refreshes' = refreshes (+) SetToBag({[k \in 1..Len(items) |-> items[k].symbol]})
    /\ watchOp' = Some([type |-> "fetchQuotes/pending", symbol |-> Null,
                        existed |-> FALSE])
    /\ UNCHANGED <<items, quotes, watchStorage, besideWatch>>

\* The quotes of refresh r have all settled, as outcomes says: the thunk
\* returns and its fulfilled or rejected reducer runs.
FetchWatchlistQuotesSettles(r, outcomes) ==
    /\ refreshes' = refreshes (-) SetToBag({r})
    /\ IF QuotesThunk(r, outcomes).ok
       THEN /\ watchStatus' = "succeeded"
            /\ quotes' = QuotesThunk(r, outcomes).quotes
            /\ UNCHANGED watchError
       ELSE /\ watchStatus' = "failed"
            /\ watchError' = QuotesThunk(r, outcomes).error
            /\ UNCHANGED quotes
    /\ watchOp' = Some([type |-> IF QuotesThunk(r, outcomes).ok
                                 THEN "fetchQuotes/fulfilled"
                                 ELSE "fetchQuotes/rejected",
                        symbol |-> Null, existed |-> FALSE, read |-> r,
                        outcomes |-> outcomes])
    /\ UNCHANGED <<items, watchStorage, besideWatch>>

\* The page is loaded again: the slice starts from what local storage holds,
\* and the refreshes in flight are gone with the old page.
WatchPageLoad ==
    /\ items' = LoadWatchlistFromStorage(watchStorage)
    /\ quotes' = NoPrices
    /\ watchStatus' = "idle"
    /\ watchError' = Null
    /\ refreshes' = EmptyBag
    /\ watchOp' = None
    /\ UNCHANGED <<watchStorage, besideWatch>>

WatchNext ==
    \/ \E symbol \in Symbols : \E name \in WatchNames(symbol) :
           AddToWatchlist(symbol, name)
    \/ \E symbol \in Symbols : RemoveFromWatchlist(symbol)
    \/ ClearWatchlist
    \/ BagCardinality(refreshes) < MaxRefreshes /\ FetchWatchlistQuotesPending
    \/ \E r \in BagToSet(refreshes) :
         \E outcomes \in [1..Len(r) -> UNION {QuoteOutcomes(s) : s \in Symbols}] :
             /\ \A k \in 1..Len(r) : outcomes[k] \in QuoteOutcomes(r[k])
             /\ FetchWatchlistQuotesSettles(r, outcomes)
    \/ WatchPageLoad

WatchSpec == Init /\ [][WatchNext]_vars

-----------------------------------------------------------------------------
(* Properties of the watchlist store.                                       *)

\* The symbols on the watchlist.
Watched == {items[k].symbol : k \in 1..Len(items)}

\* No two items of the watchlist have the same symbol.
UniqueSymbols ==
    \A i, j \in 1..Len(items) : items[i].symbol = items[j].symbol => i = j

\* A step that reduces addToWatchlist for a symbol already on the list
\* changes neither the list nor what is stored of it.
C25_AddAgainStep ==
    (/\ watchOp' # None
     /\ watchOp'[1].type = "addToWatchlist"
     /\ watchOp'[1].symbol \in Watched)
        => /\ items' = items
           /\ watchStorage' = watchStorage

(* C25: after any sequence of addToWatchlist, removeFromWatchlist and      *)
(* clearWatchlist no two items of the watchlist have the same symbol, and  *)
(* addToWatchlist for a symbol already present changes neither the items   *)
(* nor the persisted list.                                                 *)
C25_WatchlistUnique == []UniqueSymbols /\ [][C25_AddAgainStep]_vars

\* AAPL has been added a second time, with MSFT on the list too: the list
\* holds exactly one AAPL entry, and so does the stored list.
C25_Witness ==
    /\ watchOp = Some([type |-> "addToWatchlist", symbol |-> "AAPL", existed |-> TRUE])
    /\ items = <<[symbol |-> "AAPL", name |-> "Apple Inc"],
                 [symbol |-> "MSFT", name |-> "Microsoft Corp"]>>
    /\ watchStorage = SaveWatchlistToStorage(items)


\* A refresh has just settled.
RefreshSettled ==
    /\ watchOp # None
    /\ watchOp[1].type \in {"fetchQuotes/fulfilled", "fetchQuotes/rejected"}

\* The symbols a settled refresh had read whose quote was fetched.
FetchedSymbols(op) == {op.read[k] : k \in {i \in 1..Len(op.read) : op.outcomes[i].ok}}

\* A step that settles a refresh fulfils it, and leaves in watchlist.quotes
\* exactly the symbols it had read whose quote was fetched, each with the
\* quote fetched for it.
C26_RefreshStep ==
    RefreshSettled' =>
        /\ watchOp'[1].type = "fetchQuotes/fulfilled"
        /\ watchStatus' = "succeeded"
        /\ DOMAIN quotes' = FetchedSymbols(watchOp'[1])
        /\ \A k \in 1..Len(watchOp'[1].read) :
               watchOp'[1].outcomes[k].ok
                   => quotes'[watchOp'[1].read[k]] = watchOp'[1].outcomes[k].quote[1]

(* C26: fetchWatchlistQuotes always fulfils, whichever per-symbol quote    *)
(* fetches fail: the resulting quotes mapping holds exactly the watched    *)
(* symbols (those the refresh read when it was dispatched) whose fetch     *)
(* succeeded, and a symbol whose fetch failed is absent from it.           *)
C26_RefreshSwallowsFailures == [][C26_RefreshStep]_vars

\* A refresh of AAPL and MSFT has fulfilled with the quote of AAPL failed:
\* the mapping holds MSFT alone.
C26_Witness ==
    /\ RefreshSettled
    /\ watchOp[1].type = "fetchQuotes/fulfilled"
    /\ watchOp[1].read = <<"AAPL", "MSFT">>
    /\ ~watchOp[1].outcomes[1].ok
    /\ watchOp[1].outcomes[2].ok
    /\ DOMAIN quotes = {"MSFT"}
    /\ watchStatus = "succeeded"


(* C29: in every reachable state of the watchlist store, every key of      *)
(* watchlist.quotes is the symbol of an item of watchlist.items; this      *)
(* includes removeFromWatchlist or clearWatchlist running while a          *)
(* fetchWatchlistQuotes dispatched earlier is in flight and fulfils later. *)
C29_QuotesAreWatched == DOMAIN quotes \subseteq Watched

-----------------------------------------------------------------------------
(* The ledger against its own transaction log, with orders overlapping.     *)

\* The sum of the totals of the records of the log of the given type.
RECURSIVE SumOfTotals(_, _)
SumOfTotals(log, type) ==
    IF log = <<>> THEN 0
    ELSE (IF Head(log).type = type THEN Head(log).total ELSE 0)
         + SumOfTotals(Tail(log), type)

\* The sum of the shares of the records of the log of the given type.
RECURSIVE SumOfShares(_, _)
SumOfShares(log, type) ==
    IF log = <<>> THEN 0
    ELSE (IF Head(log).type = type THEN Head(log).shares ELSE 0)
         + SumOfShares(Tail(log), type)

\* The records of the log about a symbol.
LogOf(symbol) == SelectSeq(transactions, LAMBDA tx : tx.symbol = symbol)

\* The cash balance the log accounts for.
ReplayedCash ==
    initialBalance - SumOfTotals(transactions, "buy")
                   + SumOfTotals(transactions, "sell")

\* The shares of a symbol the log accounts for.
ReplayedShares(symbol) ==
    SumOfShares(LogOf(symbol), "buy") - SumOfShares(LogOf(symbol), "sell")

(* C27: the ledger equals the replay of its transaction log under every    *)
(* interleaving of orders: once all orders have settled, cashBalance is    *)
(* initialBalance minus the totals of the buy records plus the totals of   *)
(* the sell records, and each symbol is held with the shares bought minus  *)
(* the shares sold over the log (not held when that is 0).                 *)
C27_LedgerIsReplayOfLog ==
    orders = EmptyBag =>
        /\ cashBalance = ReplayedCash
        /\ \A symbol \in Symbols :
               IF ReplayedShares(symbol) = 0
               THEN HoldingOf(holdings, symbol) = None
               ELSE /\ HoldingOf(holdings, symbol) # None
                    /\ HoldingOf(holdings, symbol)[1].shares = ReplayedShares(symbol)


-----------------------------------------------------------------------------
(* ResetSpec: the interleavings of Spec with the history of the last reset  *)
(* recorded in sinceReset: older is the bag of the order thunks that were   *)
(* awaiting their price when resetPortfolio or setInitialBalance last ran   *)
(* and have not settled since; kept is TRUE from that reset until an order  *)
(* dispatched after it is fulfilled.  The ledger's operations are those of  *)
(* Spec, unchanged; only the history is added.                              *)

\* Is the thunk with closure o that settles now one dispatched before the
\* last reset?  Thunks with equal closures behave alike, so when copies of
\* o from both sides of the reset are in flight either may be the one.
MayBeOlder(o) ==
    {b \in BOOLEAN : IF b THEN CopiesIn(o, sinceReset.older) > 0
                          ELSE CopiesIn(o, orders) > CopiesIn(o, sinceReset.older)}

\* An order thunk has settled; fulfilled tells how.
OrderSettled(o, isOlder, fulfilled) ==
    sinceReset' = IF isOlder
                  THEN [sinceReset EXCEPT !.older = @ (-) SetToBag({o})]
                  ELSE IF fulfilled
                       THEN [sinceReset EXCEPT !.kept = FALSE]
                       ELSE sinceReset

\* resetPortfolio or setInitialBalance has run: the thunks in flight are
\* the older orders from now on.
ResetCompleted == sinceReset' = [older |-> orders, kept |-> TRUE]

BuyFulfilledSinceReset ==
    \E o \in BagToSet(orders) : \E fetch \in FetchOutcomes(o.symbol) :
        \E isOlder \in MayBeOlder(o) :
            ExecuteBuyOrderFulfilled(o, fetch) /\ OrderSettled(o, isOlder, TRUE)

BuyRejectedSinceReset ==
    \E o \in BagToSet(orders) : \E fetch \in FetchOutcomes(o.symbol) :
        \E isOlder \in MayBeOlder(o) :
            ExecuteBuyOrderRejected(o, fetch) /\ OrderSettled(o, isOlder, FALSE)

SellFulfilledSinceReset ==
    \E o \in BagToSet(orders) : \E fetch \in FetchOutcomes(o.symbol) :
        \E isOlder \in MayBeOlder(o) :
            ExecuteSellOrderFulfilled(o, fetch) /\ OrderSettled(o, isOlder, TRUE)

SellRejectedSinceReset ==
    \E o \in BagToSet(orders) : \E fetch \in FetchOutcomes(o.symbol) :
        \E isOlder \in MayBeOlder(o) :
            ExecuteSellOrderRejected(o, fetch) /\ OrderSettled(o, isOlder, FALSE)

ResetRecorded == ResetPortfolio /\ ResetCompleted

ReconfigureRecorded ==
    \E payload \in BalanceInputs : SetInitialBalance(payload) /\ ResetCompleted

\* The thunks of the old page are gone with it.
ReloadSinceReset == PageLoad /\ sinceReset' = [sinceReset EXCEPT !.older = EmptyBag]

ResetNext ==
    \/ BuyPending
    \/ BuyFulfilledSinceReset
    \/ BuyRejectedSinceReset
    \/ SellPending
    \/ SellFulfilledSinceReset
    \/ SellRejectedSinceReset
    \/ ResetRecorded
    \/ ReconfigureRecorded
    \/ ReloadSinceReset

ResetSpec == Init /\ [][ResetNext]_vars

\* The ledger is as the reset left it.
ResetKept ==
    /\ holdings = <<>>
    /\ transactions = <<>>
    /\ cashBalance = initialBalance

\* A fulfilment of an order dispatched before the last reset changes none
\* of holdings, transactions and cashBalance.
C28_OlderOrderStep ==
    \A o \in BagToSet(orders) : \A fetch \in FetchOutcomes(o.symbol) :
        /\ \/ ExecuteBuyOrderFulfilled(o, fetch)
           \/ ExecuteSellOrderFulfilled(o, fetch)
        /\ sinceReset'.older = sinceReset.older (-) SetToBag({o})
        /\ BagIn(o, sinceReset.older)
        => UNCHANGED <<holdings, transactions, cashBalance>>

(* C28: a reset is not undone by an older order: after resetPortfolio or    *)
(* setInitialBalance has run, holdings and transactions stay empty and      *)
(* cashBalance stays equal to initialBalance until an order dispatched      *)
(* after the reset is fulfilled, and an order dispatched before the reset   *)
(* and fulfilled after it changes none of the three.                        *)
C28_ResetNotUndone ==
    /\ [](sinceReset.kept => ResetKept)
    /\ [][C28_OlderOrderStep]_vars


-----------------------------------------------------------------------------
\* Task id has been dispatched and the promise of its add() is settled.
Served(id) == StartPlace(id) # 0 /\ Settled(tasks[id])

(* C30: no task is stranded in the request queue: with every upstream call *)
(* ending and every timer firing, every task passed to add() is dispatched *)
(* and its promise settled in the end, whether it was added to an idle     *)
(* queue, while the loop was draining, or when the loop was about to end;  *)
(* and whenever closures wait in the queue, isProcessing is true.          *)
C30_NoTaskStranded ==
    /\ [](Len(queue) > 0 => isProcessing)
    /\ \A id \in 1..MaxTasks : (Len(tasks) >= id) ~> Served(id)

\* The loop returns from the second task, which has settled, to the test of
\* its while condition and finds a third task, added in the meantime.
C30_Witness ==
    /\ drain.pc = "resume"
    /\ drain.task = 2
    /\ Settled(tasks[1]) /\ Settled(tasks[2])
    /\ queue = <<3>>
    /\ isProcessing

=============================================================================
